---------------------------- MODULE Spec2Model ----------------------------
(***************************************************************************)
(* A model of the mika BitTorrent tracker: the peer record and its update  *)
(* (src/peer.go), the redis-backed active peer set (src/store/torrent.go,  *)
(* package main part), the SQL store procedures (src/store/torrent.go,     *)
(* schema part) and the announce / reap / batch handlers that drive them.  *)
(*                                                                         *)
(* Unsigned machine integers are scaled down from 64 (32, 16) bits to      *)
(* WordBits bits: arithmetic on them is taken modulo 2^WordBits, so that   *)
(* wrap-around is reachable inside the bounds.                             *)
(***************************************************************************)
EXTENDS Integers, Sequences, FiniteSets, TLC

(***************************************************************************)
(* Bounds of the model.                                                    *)
(***************************************************************************)
WordBits == 3
MaxBytes == 2
MaxTime == 3
MaxAnnounces == 2
AnnInterval == 1

U64 == 2 ^ WordBits

Max(a, b) == IF a >= b THEN a ELSE b
Min(a, b) == IF a <= b THEN a ELSE b

\* uint64(x): the conversion of a signed value to the unsigned word.
ToU64(x) == x % U64

\* a - b on unsigned words.
SubU64(a, b) == (a - b) % U64

\* a + b on unsigned words.
AddU64(a, b) == (a + b) % U64

\* No value: the empty sequence; a value v is held as <<v>>.
None == <<>>

(***************************************************************************)
(* Values of the model.                                                    *)
(***************************************************************************)
PeerIDs == {"P1", "P2"}
Events == {"", "started", "stopped", "completed"}

\* net.IP.String() of an IPv4 address: the dotted text, kept as its parts.
IPString(ip) == <<"dotted", ip[1], ip[2], ip[3], ip[4]>>

\* net.ParseIP(s).To4(): the four address bytes of a dotted text.
ParseIPTo4(s) == IF s[1] = "dotted" THEN <<s[2], s[3], s[4], s[5]>> ELSE <<>>

LoopbackText == <<"dotted", 127, 0, 0, 1>>

(***************************************************************************)
(* src/peer.go: the peer record.                                           *)
(***************************************************************************)

\* makePeer with an empty redis reply: the default-valued peer.
makePeer(torrent_id, peer_id, cur_time) ==
    [ PeerID |-> peer_id,
      Active |-> FALSE,
      Announces |-> 0,
      SpeedUP |-> 0,
      SpeedDN |-> 0,
      SpeedUPMax |-> 0,
      SpeedDNMax |-> 0,
      Uploaded |-> 0,
      Downloaded |-> 0,
      Left |-> 0,
      Corrupt |-> 0,
      IP |-> LoopbackText,
      Port |-> 0,
      AnnounceFirst |-> cur_time,
      AnnounceLast |-> cur_time,
      TotalTime |-> 0,
      TorrentID |-> torrent_id ]

\* Peer.IsSeeder
IsSeederAlways(peer) == peer.Left >= 0
IsSeederNever(peer) == peer.Left < 0
IsSeeder(peer) == peer.Left = 0

\* The speed estimate of one announce: bytes over the seconds since the
\* previous announce, and 0 when no time has passed.
estSpeed(last, cur_time, bytes) ==
    IF cur_time - last > 0 THEN bytes \div (cur_time - last) ELSE 0

\* Peer.Update, lines 51-58: the delta of a cumulative total against the
\* stored one.  The operands are unsigned, so is the difference, and the
\* test "< 0" is made on the unsigned difference.
StatDelta(reported, stored) ==
    LET d == SubU64(reported, stored)
    IN  IF d < 0 THEN 0 ELSE d

\* Peer.Update, lines 60-61: the total stored after an announce.
StoredTotalMax(reported, stored) == Max(reported, stored)
StoredTotal(reported, stored) == reported

\* Peer.Update, lines 76-82: the seeding/leeching time after an announce.
TotalTimeAfter(peer, cur_time) ==
    IF peer.Active /\ peer.AnnounceLast > 0
    THEN LET time_diff == ToU64(cur_time - peer.AnnounceLast)
         IN  IF time_diff < AnnInterval * 4
             THEN AddU64(peer.TotalTime, time_diff)
             ELSE peer.TotalTime
    ELSE peer.TotalTime

\* Peer.Update, line 63: the port stored after an announce.
StoredPortKept(reported, stored) == stored
StoredPort(reported, stored) == reported

\* Peer.Update, lines 68-73: the peak speed after a speed is observed.
PeakSpeedLatest(observed, peak) == observed
PeakSpeed(observed, peak) == IF observed > peak THEN observed ELSE peak

\* Peer.Update: the peer after the announce, and the deltas it returns.
PeerUpdate(peer, ann, cur_time) ==
    LET ul == StatDelta(ann.Uploaded, peer.Uploaded)
        dl == StatDelta(ann.Downloaded, peer.Downloaded)
        up == estSpeed(peer.AnnounceLast, cur_time, ul)
        dn == estSpeed(peer.AnnounceLast, cur_time, dl)
    IN  [ peer |->
            [ peer EXCEPT
                !.PeerID = ann.PeerID,
                !.Announces = AddU64(peer.Announces, 1),
                !.Uploaded = StoredTotal(ann.Uploaded, peer.Uploaded),
                !.Downloaded = StoredTotal(ann.Downloaded, peer.Downloaded),
                !.IP = IPString(ann.IPv4),
                !.Port = StoredPort(ann.Port, peer.Port),
                !.Corrupt = ann.Corrupt,
                !.Left = ann.Left,
                !.SpeedUP = up,
                !.SpeedDN = dn,
                !.SpeedUPMax = PeakSpeed(up, peer.SpeedUPMax),
                !.SpeedDNMax = PeakSpeed(dn, peer.SpeedDNMax),
                !.TotalTime = TotalTimeAfter(peer, cur_time) ],
          ul |-> ul,
          dl |-> dl ]

\* makeCompactPeers, lines 147-148: the six bytes of one peer.
CompactRecord(ipText, port) ==
    ParseIPTo4(ipText) \o <<(port \div 256) % 256, port % 256>>

\* An encoder that does not leave the requester out.
RECURSIVE makeCompactPeersNoSkip(_, _)
makeCompactPeersNoSkip(peers, skip_id) ==
    IF peers = <<>> THEN <<>>
    ELSE LET peer == Head(peers)
             rest == makeCompactPeersNoSkip(Tail(peers), skip_id)
         IN  IF peer.Port <= 0 THEN rest
             ELSE CompactRecord(peer.IP, peer.Port) \o rest

\* makeCompactPeers: the compact peer field of a list of peers.
RECURSIVE makeCompactPeers(_, _)
makeCompactPeers(peers, skip_id) ==
    IF peers = <<>> THEN <<>>
    ELSE LET peer == Head(peers)
             rest == makeCompactPeers(Tail(peers), skip_id)
         IN  IF peer.Port <= 0 THEN rest
             ELSE IF peer.PeerID = skip_id THEN rest
             ELSE CompactRecord(peer.IP, peer.Port) \o rest

(***************************************************************************)
(* src/store/torrent.go, package main part: the active peer set in redis.  *)
(* A redis key is kept as the pieces fmt.Sprintf joins.                    *)
(***************************************************************************)
TorrentIDs == {1}

\* fmt.Sprintf of a uint64 with the verb %d, and with the verb %s (which
\* fmt does not take for an integer and renders as %!s(uint64=N)).
FmtD(n) == <<"dec", n>>
FmtS(n) == <<"%!s(uint64=", n, ")">>

\* The key AddPeer and GetPeers use ("t:t:%d:p"), the key DelPeer uses
\* ("t:t:%s:p"), and the key of a peer's hash ("t:t:%d:%s").
AddPeerKey(torrent_id) == <<"t:t:", FmtD(torrent_id), ":p">>
DelPeerKey(torrent_id) == <<"t:t:", FmtS(torrent_id), ":p">>
KeyPeer(torrent_id, peer_id) == <<"t:t:", FmtD(torrent_id), ":", peer_id>>

SetKeys == {AddPeerKey(t) : t \in TorrentIDs} \cup {DelPeerKey(t) : t \in TorrentIDs}
HashKeys == {KeyPeer(t, p) : t \in TorrentIDs, p \in PeerIDs}

\* AddPeer: SADD key peer_id
AddPeer(sets, torrent_id, peer_id) ==
    [sets EXCEPT ![AddPeerKey(torrent_id)] = @ \cup {peer_id}]

\* DelPeer: SREM key peer_id
DelPeer(sets, torrent_id, peer_id) ==
    [sets EXCEPT ![DelPeerKey(torrent_id)] = @ \ {peer_id}]

\* Peer.Sync: HMSET KeyPeer with the fields of the peer
PeerSync(hashes, peer) ==
    [hashes EXCEPT ![KeyPeer(peer.TorrentID, peer.PeerID)] = <<peer>>]

\* The zero value of the Peer struct: what make([]Peer, n) is filled with.
ZeroPeer ==
    [ PeerID |-> "", Active |-> FALSE, Announces |-> 0,
      SpeedUP |-> 0, SpeedDN |-> 0, SpeedUPMax |-> 0, SpeedDNMax |-> 0,
      Uploaded |-> 0, Downloaded |-> 0, Left |-> 0, Corrupt |-> 0,
      IP |-> <<"">>, Port |-> 0, AnnounceFirst |-> 0, AnnounceLast |-> 0,
      TotalTime |-> 0, TorrentID |-> 0 ]

\* SMEMBERS: the members of a set, in the order redis replies them (taken
\* to be one fixed order).
PeerOrder == <<"P1", "P2">>
Members(set) == SelectSeq(PeerOrder, LAMBDA x : x \in set)

\* GetPeers, lines 707-725: the peer made of each HGETALL reply.
RECURSIVE LoadPeers(_, _, _, _)
LoadPeers(hashes, torrent_id, peer_ids, cur_time) ==
    IF peer_ids = <<>> THEN <<>>
    ELSE LET reply == hashes[KeyPeer(torrent_id, Head(peer_ids))]
             peer == IF reply = None
                     THEN makePeer(torrent_id, Head(peer_ids), cur_time)
                     ELSE reply[1]
         IN  <<peer>> \o LoadPeers(hashes, torrent_id, Tail(peer_ids), cur_time)

\* GetPeers: a slice made with known_peers zero-valued entries, to which
\* the peers read from redis are appended.
GetPeers(sets, hashes, torrent_id, max_peers, cur_time) ==
    LET peer_ids == Members(sets[AddPeerKey(torrent_id)])
        known_peers == Min(Len(peer_ids), max_peers)
    IN  [i \in 1..known_peers |-> ZeroPeer]
            \o LoadPeers(hashes, torrent_id, SubSeq(peer_ids, 1, known_peers), cur_time)

(***************************************************************************)
(* src/store/torrent.go, schema part: the stored procedures.  A table is a *)
(* function from the primary key to None or <<row>>.                       *)
(***************************************************************************)
Passkeys == {"pk1", "pk2"}

\* user_update_stats
user_update_statsAll(users, in_passkey, in_announces, in_uploaded, in_downloaded) ==
    [k \in DOMAIN users |->
        IF users[k] # None
        THEN <<[ users[k][1] EXCEPT
                   !.announces = AddU64(@, in_announces),
                   !.uploaded = AddU64(@, in_uploaded),
                   !.downloaded = AddU64(@, in_downloaded) ]>>
        ELSE users[k]]
user_update_stats(users, in_passkey, in_announces, in_uploaded, in_downloaded) ==
    [k \in DOMAIN users |->
        IF k = in_passkey /\ users[k] # None
        THEN <<[ users[k][1] EXCEPT
                   !.announces = AddU64(@, in_announces),
                   !.uploaded = AddU64(@, in_uploaded),
                   !.downloaded = AddU64(@, in_downloaded) ]>>
        ELSE users[k]]

\* torrent_update_stats
torrent_update_statsOverwrite(tors, in_info_hash, in_total_downloaded, in_total_uploaded, in_announces, in_total_completed, in_seeders, in_leechers) ==
    [k \in DOMAIN tors |->
        IF k = in_info_hash /\ tors[k] # None
        THEN <<[ tors[k][1] EXCEPT
                   !.total_downloaded = in_total_downloaded,
                   !.total_uploaded = in_total_uploaded,
                   !.announces = in_announces,
                   !.total_completed = in_total_completed,
                   !.seeders = in_seeders,
                   !.leechers = in_leechers ]>>
        ELSE tors[k]]
torrent_update_stats(tors, in_info_hash, in_total_downloaded, in_total_uploaded, in_announces, in_total_completed, in_seeders, in_leechers) ==
    [k \in DOMAIN tors |->
        IF k = in_info_hash /\ tors[k] # None
        THEN <<[ tors[k][1] EXCEPT
                   !.total_downloaded = AddU64(@, in_total_downloaded),
                   !.total_uploaded = AddU64(@, in_total_uploaded),
                   !.announces = AddU64(@, in_announces),
                   !.total_completed = AddU64(@, in_total_completed),
                   !.seeders = in_seeders,
                   !.leechers = in_leechers ]>>
        ELSE tors[k]]

\* peer_update_stats
peer_update_stats(peers, in_info_hash, in_peer_id, in_total_downloaded, in_total_uploaded, in_total_announces, in_announce_last, in_speed_dn, in_speed_up, in_speed_dn_max, in_speed_up_max) ==
    [k \in DOMAIN peers |->
        IF k = <<in_info_hash, in_peer_id>> /\ peers[k] # None
        THEN <<[ peers[k][1] EXCEPT
                   !.total_announces = AddU64(@, in_total_announces),
                   !.total_downloaded = AddU64(@, in_total_downloaded),
                   !.total_uploaded = AddU64(@, in_total_uploaded),
                   !.announce_last = in_announce_last,
                   !.speed_up = in_speed_up,
                   !.speed_dn = in_speed_dn,
                   !.speed_up_max = Max(@, in_speed_up_max),
                   !.speed_dn_max = Max(@, in_speed_dn_max) ]>>
        ELSE peers[k]]

\* peer_reap
peer_reap(peers, in_expiry_time) ==
    [k \in DOMAIN peers |->
        IF peers[k] # None /\ peers[k][1].announce_last <= in_expiry_time
        THEN None
        ELSE peers[k]]

\* peer_add: the row of a new peer; announce_prev is set to announce_last.
peer_add(peers, in_info_hash, in_peer_id, in_addr_ip, in_addr_port, in_announce_first, in_announce_last, in_downloaded, in_uploaded, in_left) ==
    [peers EXCEPT ![<<in_info_hash, in_peer_id>>] =
        <<[ addr_ip |-> in_addr_ip,
            addr_port |-> in_addr_port,
            announce_first |-> in_announce_first,
            announce_last |-> in_announce_last,
            announce_prev |-> in_announce_last,
            total_downloaded |-> in_downloaded,
            total_uploaded |-> in_uploaded,
            total_left |-> in_left,
            total_announces |-> 0,
            speed_up |-> 0,
            speed_dn |-> 0,
            speed_up_max |-> 0,
            speed_dn_max |-> 0 ]>>]

\* peer_delete
peer_delete(peers, in_info_hash, in_peer_id) ==
    [k \in DOMAIN peers |->
        IF k = <<in_info_hash, in_peer_id>> THEN None ELSE peers[k]]

(***************************************************************************)
(* State.                                                                  *)
(***************************************************************************)
VARIABLES
    updPeer,    \* SpecPeer: one peer record, updated announce after announce
    updCall,    \* SpecPeer: the last Update call: peer before, request, result
    updNow,     \* SpecPeer: the clock (unixtime)
    rcPeer,     \* SpecRace: the peer record shared by the goroutines
    rcLock,     \* SpecRace: the holder of the peer's mutex, or None
    rcPc,       \* SpecRace: each goroutine's position
    rcAnn,      \* SpecRace: the announce each updating goroutine applies
    rcLocal,    \* SpecRace: the locals ul, dl of each updating goroutine
    rcPort,     \* SpecRace: the port the encoder read at line 139
    rcOut,      \* SpecRace: the bytes the encoder has written
    now,        \* Spec: the clock (unixtime)
    swarm,      \* Spec: the peers in memory, by (torrent, peer id)
    torrents,   \* Spec: the Torrent structs in memory
    users,      \* Spec: the User structs in memory
    redisSets,  \* Spec: the redis sets, by key
    redisHashes,\* Spec: the redis hashes of the peers, by key
    dbUsers,    \* Spec: table users
    dbTorrents, \* Spec: table torrent
    dbPeers,    \* Spec: table peers
    accUser,    \* Spec: the pending user deltas, by passkey
    accTorrent, \* Spec: the pending torrent deltas, by torrent
    accPeer,    \* Spec: the pending peer deltas, by (torrent, peer id)
    ledger,     \* Spec: history: the deltas produced, and handed to the store
    resp,       \* Spec: the last announce and its response
    annTotal,   \* Spec: metrics.AnnounceTotal
    storeWriteErrors, \* Spec: the store_write_errors counter
    swPc,       \* SpecSwap: each announce's position
    swAcc,      \* SpecSwap: the deltas in the accumulator
    swBatch,    \* SpecSwap: the batch swapped out and not yet stored, or None
    swSwaps,    \* SpecSwap: the number of swaps so far
    swBegin,    \* SpecSwap: history: the swaps before each announce began
    swEnq,      \* SpecSwap: history: the swaps before each enqueue
    swRet,      \* SpecSwap: history: the swaps before each announce returned
    swFirst,    \* SpecSwap: history: the first batch that held each delta
    swApplied,  \* SpecSwap: history: the stored batches that held each delta
    hexIn,      \* SpecHex: the string given to InfoHashFromHex
    hexHash,    \* SpecHex: the target InfoHash
    hexErr,     \* SpecHex: the error InfoHashFromHex returned, or None
    hexStr,     \* SpecHex: the String() of the InfoHash
    hexBack,    \* SpecHex: the result of parsing hexStr again
    hexPc,      \* SpecHex: the position of the round trip
    encSets,    \* SpecEnc: the redis sets of the swarm
    encHashes,  \* SpecEnc: the redis hashes of the peers
    encWant,    \* SpecEnc: the numwant of the request
    encSkip,    \* SpecEnc: the peer id of the requester
    encList,    \* SpecEnc: the peers selected, or None
    encOut,     \* SpecEnc: the compact bytes, or None
    metCounters,\* SpecMetrics: the announce counters of package metrics
    metTimes,   \* SpecMetrics: metrics.AnnounceExecTimesNs
    metGot,     \* SpecMetrics: the last RuntimeMetrics read, or None
    metCounted, \* SpecMetrics: history: the announces counted since start
    wlArgs,     \* SpecWL: the arguments of the four requests
    wlMem,      \* SpecWL: the keys of Tracker.Whitelist
    wlStore,    \* SpecWL: the prefixes of table whitelist
    rwWriter,   \* SpecWL: the holder of the write lock, or None
    rwReaders,  \* SpecWL: the holders of the read lock
    rwPending,  \* SpecWL: the goroutines blocked in Lock()
    wlPc,       \* SpecWL: the position of each goroutine
    wlNew,      \* SpecWL: newWL of whitelistDelete, or None
    wlSeen,     \* SpecWL: what the listing and the check read, or None
    wlRaced,    \* SpecWL: history: the check overlapped a map write
    wlVersions, \* SpecWL: history: the whitelists before and after each change
    admUsers,   \* SpecAdmit: table users: the user of each passkey, or None
    admTorrents,\* SpecAdmit: table torrent: the flags and multipliers, or None
    admWhitelist,\* SpecAdmit: the client whitelist
    admPublic,  \* SpecAdmit: config tracker_public
    admLast,    \* SpecAdmit: the last announce and its verdict, or None
    tmIn,       \* SpecTime: a peer, the clock and the hit-and-run threshold
    tmOut,      \* SpecTime: what Update and IsHNR computed for tmIn
    lifePrev,   \* SpecLife: of each peer, the announce_last its latest announce replaced
    lifeLast,   \* SpecLife: of the last announce, the peer, port, event and status
    flIn,       \* SpecFlush: a table of the store and the arguments of one stat flush
    flOut,      \* SpecFlush: the table after the procedure call
    atTorrents, \* SpecAdminTorrent: the torrents of the store, by info hash
    atLast,     \* SpecAdminTorrent: the last admin request and its answer
    atCount,    \* SpecAdminTorrent: the admin requests handled
    shSignal,   \* SpecShutdown: the shutdown signal has been given
    shReaper,   \* SpecShutdown: the position of the reaper task
    shWriter,   \* SpecShutdown: the position of the batch writer task
    shAcc,      \* SpecShutdown: the deltas in the accumulator
    shBatch,    \* SpecShutdown: the deltas of the batch in flight
    shStored,   \* SpecShutdown: the deltas passed to the store
    shMark,     \* SpecShutdown: the deltas enqueued when the signal was given
    cfgTracker, \* the settings of the tracker that the admin API changes
    cfgLast,    \* the last config update: request, environment, settings before, reply
    mcCounters, \* the announce counters of package metrics
    mcTimes,    \* AnnounceExecTimesNs
    mcLock,     \* the holder of execLock
    mcAnn,      \* the announce each handler counts
    mcPc,       \* the position of each handler
    mcGetPc,    \* the position of the reader in Get
    mcGetM,     \* the metrics the reader has read so far
    mcReads,    \* the metrics the reads returned, in order
    mcIncs,     \* the increments performed on each counter
    mcAll       \* the execution times recorded, in order

updVars == <<updPeer, updCall, updNow>>
rcVars == <<rcPeer, rcLock, rcPc, rcAnn, rcLocal, rcPort, rcOut>>
memVars == <<swarm, torrents, users>>
redisVars == <<redisSets, redisHashes>>
dbVars == <<dbUsers, dbTorrents, dbPeers>>
accVars == <<accUser, accTorrent, accPeer, ledger>>
mainVars == <<now, memVars, redisVars, dbVars, accVars, resp, annTotal,
              storeWriteErrors>>

swapVars == <<swPc, swAcc, swBatch, swSwaps, swBegin, swEnq, swRet, swFirst, swApplied>>

hexVars == <<hexIn, hexHash, hexErr, hexStr, hexBack, hexPc>>

encVars == <<encSets, encHashes, encWant, encSkip, encList, encOut>>

metVars == <<metCounters, metTimes, metGot, metCounted>>

wlVars == <<wlArgs, wlMem, wlStore, rwWriter, rwReaders, rwPending, wlPc, wlNew, wlSeen, wlRaced, wlVersions>>

admVars == <<admUsers, admTorrents, admWhitelist, admPublic, admLast>>

tmVars == <<tmIn, tmOut>>

lifeVars == <<lifePrev, lifeLast>>

flVars == <<flIn, flOut>>

atVars == <<atTorrents, atLast, atCount>>

shVars == <<shSignal, shReaper, shWriter, shAcc, shBatch, shStored, shMark>>

cfgVars == <<cfgTracker, cfgLast>>

mcVars == <<mcCounters, mcTimes, mcLock, mcAnn, mcPc, mcGetPc, mcGetM, mcReads, mcIncs, mcAll>>

\* The parts of the state that the specifications above SpecHex leave alone.
auxVars == <<hexVars, encVars, metVars, wlVars, admVars, tmVars, lifeVars, flVars, atVars, shVars, cfgVars, mcVars>>

vars == <<updVars, rcVars, mainVars, swapVars, auxVars>>

\* The values of a part of the state that a specification does not use.
UpdIdle == updPeer = None /\ updCall = None /\ updNow = 0
RcIdle ==
    /\ rcPeer = None /\ rcLock = None /\ rcPc = None /\ rcAnn = None
    /\ rcLocal = None /\ rcPort = 0 /\ rcOut = None
HexIdle ==
    /\ hexIn = None /\ hexHash = None /\ hexErr = None /\ hexStr = None
    /\ hexBack = None /\ hexPc = None
EncIdle ==
    /\ encSets = None /\ encHashes = None /\ encWant = 0 /\ encSkip = None
    /\ encList = None /\ encOut = None
MetIdle ==
    /\ metCounters = None /\ metTimes = None /\ metGot = None /\ metCounted = 0
WlIdle ==
    /\ wlArgs = None /\ wlMem = None /\ wlStore = None /\ rwWriter = None
    /\ rwReaders = None /\ rwPending = None /\ wlPc = None /\ wlNew = None
    /\ wlSeen = None /\ wlRaced = FALSE /\ wlVersions = None
AdmIdle ==
    /\ admUsers = None /\ admTorrents = None /\ admWhitelist = None
    /\ admPublic = FALSE /\ admLast = None
TmIdle ==
    tmIn = None /\ tmOut = None
LifeIdle ==
    lifePrev = None /\ lifeLast = None
FlIdle ==
    flIn = None /\ flOut = None
AtIdle ==
    atTorrents = None /\ atLast = None /\ atCount = 0
ShIdle ==
    /\ shSignal = FALSE /\ shReaper = None /\ shWriter = None
    /\ shAcc = 0 /\ shBatch = 0 /\ shStored = 0 /\ shMark = 0
CfgIdle ==
    /\ cfgTracker = None
    /\ cfgLast = None
McIdle ==
    /\ mcCounters = None /\ mcTimes = None /\ mcLock = None /\ mcAnn = None
    /\ mcPc = None /\ mcGetPc = 0 /\ mcGetM = None /\ mcReads = None
    /\ mcIncs = None /\ mcAll = None
AuxIdle == HexIdle /\ EncIdle /\ MetIdle /\ WlIdle /\ AdmIdle /\ TmIdle /\ LifeIdle /\ FlIdle /\ AtIdle /\ ShIdle /\ CfgIdle /\ McIdle
SwIdle ==
    /\ swPc = None /\ swAcc = None /\ swBatch = None /\ swSwaps = 0
    /\ swBegin = None /\ swEnq = None /\ swRet = None /\ swFirst = None
    /\ swApplied = None
MainIdle ==
    /\ now = 0 /\ swarm = None /\ torrents = None /\ users = None
    /\ redisSets = None /\ redisHashes = None
    /\ dbUsers = None /\ dbTorrents = None /\ dbPeers = None
    /\ accUser = None /\ accTorrent = None /\ accPeer = None /\ ledger = None
    /\ resp = None /\ annTotal = 0 /\ storeWriteErrors = 0

(***************************************************************************)
(* SpecPeer: Peer.Update applied to one peer over a sequence of announces. *)
(***************************************************************************)
UpdRequests ==
    [ PeerID : {"P1"},
      Uploaded : 0..MaxBytes,
      Downloaded : 0..MaxBytes,
      IPv4 : {<<10, 0, 0, 1>>},
      Port : {1},
      Corrupt : {0},
      Left : 0..1 ]

UpdInit ==
    /\ RcIdle
    /\ SwIdle
    /\ AuxIdle
    /\ MainIdle
    /\ updNow = 1
    /\ updPeer = makePeer(1, "P1", 1)
    /\ updCall = None

\* One announce of the peer: Update, then the caller marks the peer active
\* and stamps the announce time.
UpdAnnounce ==
    \E ann \in UpdRequests :
        LET r == PeerUpdate(updPeer, ann, updNow)
        IN  /\ updPeer.Announces < MaxAnnounces
            /\ updPeer' = [r.peer EXCEPT !.Active = TRUE, !.AnnounceLast = updNow]
            /\ updCall' = <<[before |-> updPeer, ann |-> ann, ul |-> r.ul, dl |-> r.dl]>>
            /\ UNCHANGED <<updNow, rcVars, mainVars, swapVars, auxVars>>

UpdTick ==
    /\ updNow < MaxTime
    /\ updNow' = updNow + 1
    /\ UNCHANGED <<updPeer, updCall, rcVars, mainVars, swapVars, auxVars>>

UpdNext == UpdAnnounce \/ UpdTick

SpecPeer == UpdInit /\ [][UpdNext]_vars

(***************************************************************************)
(* C2: for every announce of an existing peer, the deltas Update returns   *)
(* are max(0, reported - stored) for uploaded and for downloaded: a        *)
(* reported total below the stored one gives 0, never a wrapped value.     *)
(***************************************************************************)
C2_DeltaIsClampedDifference ==
    updCall # None =>
        /\ updCall[1].ul = Max(0, updCall[1].ann.Uploaded - updCall[1].before.Uploaded)
        /\ updCall[1].dl = Max(0, updCall[1].ann.Downloaded - updCall[1].before.Downloaded)

(***************************************************************************)
(* C6 as stated: the stored uploaded and downloaded totals of a peer       *)
(* never decrease over its announces.                                      *)
(***************************************************************************)
C6_StoredTotalNeverDecreases ==
    updCall # None =>
        /\ updPeer.Uploaded >= updCall[1].before.Uploaded
        /\ updPeer.Downloaded >= updCall[1].before.Downloaded

(***************************************************************************)
(* C6 amended: after each update the stored uploaded and downloaded        *)
(* totals are the totals the announce reported; they do not decrease when  *)
(* the reported totals do not, and become the smaller reported total when  *)
(* the client reports less than before.                                    *)
(***************************************************************************)
C6_StoredTotalIsReported ==
    updCall # None =>
        /\ updPeer.Uploaded = updCall[1].ann.Uploaded
        /\ updPeer.Downloaded = updCall[1].ann.Downloaded
        /\ (updCall[1].ann.Uploaded >= updCall[1].before.Uploaded
               <=> updPeer.Uploaded >= updCall[1].before.Uploaded)
        /\ (updCall[1].ann.Downloaded >= updCall[1].before.Downloaded
               <=> updPeer.Downloaded >= updCall[1].before.Downloaded)

\* A client that reported less than before, and the stored total following it.
C6_Witness ==
    /\ updCall # None
    /\ updCall[1].ann.Uploaded < updCall[1].before.Uploaded
    /\ updPeer.Uploaded = updCall[1].ann.Uploaded

(***************************************************************************)
(* SpecRace: two goroutines run Peer.Update on one peer while a third runs *)
(* makeCompactPeers over a list holding that peer.  Update takes the       *)
(* peer's mutex (lines 45-46); makeCompactPeers takes no lock, so each of  *)
(* its field reads is a step that may fall between two writes of Update.   *)
(***************************************************************************)
Updaters == {"u1", "u2"}
Reader == "enc"
RaceTime == 2

\* The announces the two updaters may carry: address and port differ.
RaceRequests ==
    { [ PeerID |-> "P1", Uploaded |-> 1, Downloaded |-> 0,
        IPv4 |-> <<10, 0, 0, 1>>, Port |-> 1, Corrupt |-> 0, Left |-> 1 ],
      [ PeerID |-> "P1", Uploaded |-> 2, Downloaded |-> 1,
        IPv4 |-> <<10, 0, 0, 2>>, Port |-> 2, Corrupt |-> 0, Left |-> 0 ] }

\* The peer as a first announce at time 1 left it.
RaceFirstPeer(ann) ==
    [ PeerUpdate(makePeer(1, "P1", 1), ann, 1).peer
        EXCEPT !.Active = TRUE, !.AnnounceLast = 1 ]

RcInit ==
    /\ UpdIdle
    /\ SwIdle
    /\ AuxIdle
    /\ MainIdle
    /\ \E a \in RaceRequests : rcPeer = RaceFirstPeer(a)
    /\ rcLock = None
    /\ rcPc = [g \in Updaters \cup {Reader} |-> IF g = Reader THEN "l139" ELSE "l45"]
    /\ rcAnn \in [Updaters -> RaceRequests]
    /\ rcLocal = [u \in Updaters |-> [ul |-> 0, dl |-> 0]]
    /\ rcPort = 0
    /\ rcOut = <<>>

RcGoto(g, label) == rcPc' = [rcPc EXCEPT ![g] = label]

\* line 45: peer.Lock()
RcLock(u) ==
    /\ rcPc[u] = "l45"
    /\ rcLock = None
    /\ rcLock' = <<u>>
    /\ RcGoto(u, "l48")
    /\ UNCHANGED <<rcPeer, rcAnn, rcLocal, rcPort, rcOut, updVars, mainVars, swapVars, auxVars>>

\* lines 48-49: peer.PeerID = announce.PeerID; peer.Announces++
RcWriteID(u) ==
    /\ rcPc[u] = "l48"
    /\ rcPeer' = [rcPeer EXCEPT !.PeerID = rcAnn[u].PeerID,
                                !.Announces = AddU64(rcPeer.Announces, 1)]
    /\ RcGoto(u, "l51")
    /\ UNCHANGED <<rcLock, rcAnn, rcLocal, rcPort, rcOut, updVars, mainVars, swapVars, auxVars>>

\* lines 51-61: the deltas, then the stored totals
RcWriteTotals(u) ==
    /\ rcPc[u] = "l51"
    /\ rcLocal' = [rcLocal EXCEPT ![u] =
            [ ul |-> StatDelta(rcAnn[u].Uploaded, rcPeer.Uploaded),
              dl |-> StatDelta(rcAnn[u].Downloaded, rcPeer.Downloaded) ]]
    /\ rcPeer' = [rcPeer EXCEPT
            !.Uploaded = StoredTotal(rcAnn[u].Uploaded, rcPeer.Uploaded),
            !.Downloaded = StoredTotal(rcAnn[u].Downloaded, rcPeer.Downloaded)]
    /\ RcGoto(u, "l62")
    /\ UNCHANGED <<rcLock, rcAnn, rcPort, rcOut, updVars, mainVars, swapVars, auxVars>>

\* line 62: peer.IP = announce.IPv4.String()
RcWriteIP(u) ==
    /\ rcPc[u] = "l62"
    /\ rcPeer' = [rcPeer EXCEPT !.IP = IPString(rcAnn[u].IPv4)]
    /\ RcGoto(u, "l63")
    /\ UNCHANGED <<rcLock, rcAnn, rcLocal, rcPort, rcOut, updVars, mainVars, swapVars, auxVars>>

\* line 63: peer.Port = announce.Port
RcWritePort(u) ==
    /\ rcPc[u] = "l63"
    /\ rcPeer' = [rcPeer EXCEPT !.Port = rcAnn[u].Port]
    /\ RcGoto(u, "l64")
    /\ UNCHANGED <<rcLock, rcAnn, rcLocal, rcPort, rcOut, updVars, mainVars, swapVars, auxVars>>

\* lines 64-82: corrupt, left, the speeds and the total time; then the
\* deferred Unlock of line 46 and the return.
RcWriteRest(u) ==
    /\ rcPc[u] = "l64"
    /\ LET up == estSpeed(rcPeer.AnnounceLast, RaceTime, rcLocal[u].ul)
           dn == estSpeed(rcPeer.AnnounceLast, RaceTime, rcLocal[u].dl)
       IN  rcPeer' = [rcPeer EXCEPT
                !.Corrupt = rcAnn[u].Corrupt,
                !.Left = rcAnn[u].Left,
                !.SpeedUP = up,
                !.SpeedDN = dn,
                !.SpeedUPMax = Max(up, rcPeer.SpeedUPMax),
                !.SpeedDNMax = Max(dn, rcPeer.SpeedDNMax),
                !.TotalTime = TotalTimeAfter(rcPeer, RaceTime)]
    /\ rcLock' = None
    /\ RcGoto(u, "done")
    /\ UNCHANGED <<rcAnn, rcLocal, rcPort, rcOut, updVars, mainVars, swapVars, auxVars>>

\* makeCompactPeers line 139: if peer.Port <= 0 { continue }
RcReadPort ==
    /\ rcPc[Reader] = "l139"
    /\ rcPort' = rcPeer.Port
    /\ RcGoto(Reader, IF rcPeer.Port <= 0 THEN "done" ELSE "l143")
    /\ UNCHANGED <<rcPeer, rcLock, rcAnn, rcLocal, rcOut, updVars, mainVars, swapVars, auxVars>>

\* makeCompactPeers line 143: if peer.PeerID == skip_id { continue }
RcReadID ==
    /\ rcPc[Reader] = "l143"
    /\ RcGoto(Reader, IF rcPeer.PeerID = "P2" THEN "done" ELSE "l147")
    /\ UNCHANGED <<rcPeer, rcLock, rcAnn, rcLocal, rcPort, rcOut, updVars, mainVars, swapVars, auxVars>>

\* makeCompactPeers line 147: out_buf.Write(net.ParseIP(peer.IP).To4())
RcEmitIP ==
    /\ rcPc[Reader] = "l147"
    /\ rcOut' = rcOut \o ParseIPTo4(rcPeer.IP)
    /\ RcGoto(Reader, "l148")
    /\ UNCHANGED <<rcPeer, rcLock, rcAnn, rcLocal, rcPort, updVars, mainVars, swapVars, auxVars>>

\* makeCompactPeers line 148: the two port bytes
RcEmitPort ==
    /\ rcPc[Reader] = "l148"
    /\ rcOut' = rcOut \o <<(rcPeer.Port \div 256) % 256, rcPeer.Port % 256>>
    /\ RcGoto(Reader, "done")
    /\ UNCHANGED <<rcPeer, rcLock, rcAnn, rcLocal, rcPort, updVars, mainVars, swapVars, auxVars>>

RcNext ==
    \/ \E u \in Updaters : RcLock(u)
    \/ \E u \in Updaters : RcWriteID(u)
    \/ \E u \in Updaters : RcWriteTotals(u)
    \/ \E u \in Updaters : RcWriteIP(u)
    \/ \E u \in Updaters : RcWritePort(u)
    \/ \E u \in Updaters : RcWriteRest(u)
    \/ RcReadPort
    \/ RcReadID
    \/ RcEmitIP
    \/ RcEmitPort

SpecRace == RcInit /\ [][RcNext]_vars

\* The compact records of the peer as some announce left it whole.
RaceWholeRecords ==
    { CompactRecord(IPString(a.IPv4), a.Port) : a \in RaceRequests }

(***************************************************************************)
(* C7: an update of one peer is atomic for every other access to it: the   *)
(* compact-response builder, like a second update, sees the peer entirely  *)
(* before or entirely after an update, so the address and port it writes   *)
(* for the peer are those of one announce, never the address of one and    *)
(* the port of another; and two updates never hold the peer together.      *)
(***************************************************************************)
C7_UpdateAtomicForReaders ==
    /\ (rcPc # None /\ rcPc[Reader] = "done" /\ rcOut # <<>>)
           => rcOut \in RaceWholeRecords
    /\ rcPc # None =>
           Cardinality({u \in Updaters : rcPc[u] \notin {"l45", "done"}}) <= 1

(***************************************************************************)
(* Spec: the tracker.  Announces of the peers, the reaper and the batch    *)
(* writer act on the swarms in memory, on redis and on the SQL store.      *)
(***************************************************************************)
MaxUp == 1
MaxClock == 3
MaxRequests == 2
PeerTTL == 1
MaxWriteErrors == 1
MaxPeers == 2
MultiUp == 1
MultiDn == 1

PeerKeys == TorrentIDs \X PeerIDs
PasskeyOf(peer_id) == IF peer_id = "P1" THEN "pk1" ELSE "pk2"
IPOf(peer_id) == IF peer_id = "P1" THEN <<10, 0, 0, 1>> ELSE <<10, 0, 0, 2>>
PortOf(peer_id) == IF peer_id = "P1" THEN 1 ELSE 2

\* The announces a client may send for a peer id: the swarm is exercised
\* with every event and both values of left, the batch writer with totals
\* that rise and fall.
Requests(peer_id) ==
    [ PeerID : {peer_id},
      Uploaded : {0},
      Downloaded : {0},
      IPv4 : {IPOf(peer_id)},
      Port : {PortOf(peer_id)},
      Corrupt : {0},
      Left : 0..1,
      Event : Events ]

BatchRequests(peer_id) ==
    [ PeerID : {peer_id},
      Uploaded : 0..MaxUp,
      Downloaded : {0},
      IPv4 : {IPOf(peer_id)},
      Port : {PortOf(peer_id)},
      Corrupt : {0},
      Left : {1},
      Event : {"", "completed", "stopped"} ]

ZeroStats == [uploaded |-> 0, downloaded |-> 0, announces |-> 0]
ZeroTorrentStats == [uploaded |-> 0, downloaded |-> 0, announces |-> 0, snatches |-> 0]

\* The tracker after construction: no peers, no deltas, the counters at 0.
TrackerStart ==
    /\ now = 1
    /\ swarm = [k \in PeerKeys |-> None]
    /\ torrents = [t \in TorrentIDs |->
            [ Seeders |-> 0, Leechers |-> 0, Snatches |-> 0,
              Uploaded |-> 0, Downloaded |-> 0, Announces |-> 0 ]]
    /\ users = [pk \in Passkeys |-> [Uploaded |-> 0, Downloaded |-> 0, Announces |-> 0]]
    /\ redisSets = [k \in SetKeys |-> {}]
    /\ redisHashes = [k \in HashKeys |-> None]
    /\ dbUsers = [pk \in Passkeys |-> <<ZeroStats>>]
    /\ dbTorrents = [t \in TorrentIDs |->
            <<[ total_uploaded |-> 0, total_downloaded |-> 0, total_completed |-> 0,
                announces |-> 0, seeders |-> 0, leechers |-> 0 ]>>]
    /\ dbPeers = [k \in PeerKeys |-> None]
    /\ accUser = [pk \in Passkeys |-> ZeroStats]
    /\ accTorrent = [t \in TorrentIDs |-> ZeroTorrentStats]
    /\ accPeer = [k \in PeerKeys |-> None]
    /\ ledger = [ user |-> [pk \in Passkeys |-> [produced |-> ZeroStats, handed |-> ZeroStats]],
                  torrent |-> [t \in TorrentIDs |->
                        [produced |-> ZeroTorrentStats, handed |-> ZeroTorrentStats]],
                  peer |-> [k \in PeerKeys |-> [produced |-> ZeroStats, handed |-> ZeroStats]] ]
    /\ resp = None
    /\ annTotal = 0
    /\ storeWriteErrors = 0

Init ==
    /\ UpdIdle
    /\ RcIdle
    /\ SwIdle
    /\ AuxIdle
    /\ TrackerStart

\* The sum of two delta records, field by field, on unsigned words.
AddStats(a, b) == [f \in DOMAIN a |-> AddU64(a[f], b[f])]

\* The seeders (or leechers) among the peers of a swarm in memory.
CountPeers(sw, t, seeding) ==
    Cardinality({p \in PeerIDs : sw[<<t, p>>] # None
                                    /\ IsSeeder(sw[<<t, p>>][1]) = seeding})

\* The response to an announce.
Response(peer_id, event, t, tor, peers) ==
    <<[ peer |-> peer_id, event |-> event, torrent |-> t,
        complete |-> tor[t].Seeders, incomplete |-> tor[t].Leechers,
        peers |-> peers ]>>

\* An announce with event = stopped of a peer that is not in the swarm.
StopAbsentCounted(t, p, ann) ==
    /\ torrents' = [torrents EXCEPT ![t].Leechers = @ - 1]
    /\ resp' = Response(p, ann.Event, t, torrents', <<>>)
    /\ UNCHANGED <<swarm, users, redisVars, dbVars, accVars>>
StopAbsent(t, p, ann) ==
    /\ resp' = Response(p, ann.Event, t, torrents, <<>>)
    /\ UNCHANGED <<memVars, redisVars, dbVars, accVars>>

\* An announce with event = stopped of a peer of the swarm: the peer is
\* removed from the swarm, from the active set and from the store.
StopPresent(t, p, ann) ==
    LET peer == swarm[<<t, p>>][1]
    IN  /\ swarm' = [swarm EXCEPT ![<<t, p>>] = None]
        /\ torrents' = [torrents EXCEPT ![t] =
                IF IsSeeder(peer)
                THEN [@ EXCEPT !.Seeders = @ - 1]
                ELSE [@ EXCEPT !.Leechers = @ - 1]]
        /\ redisSets' = DelPeer(redisSets, t, p)
        /\ dbPeers' = peer_delete(dbPeers, t, p)
        /\ resp' = Response(p, ann.Event, t, torrents', <<>>)
        /\ UNCHANGED <<users, redisHashes, dbUsers, dbTorrents, accVars>>

\* The pending deltas of a peer after one more announce.
PeerPending(pending, peer, ul, dl) ==
    LET old == IF pending = None
               THEN [uploaded |-> 0, downloaded |-> 0, announces |-> 0]
               ELSE pending[1]
    IN  <<[ uploaded |-> AddU64(old.uploaded, ul),
            downloaded |-> AddU64(old.downloaded, dl),
            announces |-> AddU64(old.announces, 1),
            announce_last |-> peer.AnnounceLast,
            speed_up |-> peer.SpeedUP,
            speed_dn |-> peer.SpeedDN,
            speed_up_max |-> peer.SpeedUPMax,
            speed_dn_max |-> peer.SpeedDNMax ]>>

\* The change of the seeder count (and, negated for a known peer, of the
\* leecher count) when a peer goes from prior to peer.
SeederChange(prior, peer) ==
    IF prior = None
    THEN (IF IsSeeder(peer) THEN 1 ELSE 0)
    ELSE (IF IsSeeder(peer) THEN 1 ELSE 0) - (IF IsSeeder(prior[1]) THEN 1 ELSE 0)

LeecherChange(prior, peer) ==
    IF prior = None
    THEN (IF IsSeeder(peer) THEN 0 ELSE 1)
    ELSE (IF IsSeeder(peer) THEN 0 ELSE 1) - (IF IsSeeder(prior[1]) THEN 0 ELSE 1)

\* A completed event counts as a snatch unless the peer was a seeder already.
SnatchAlways(prior, event) == IF event = "completed" THEN 1 ELSE 0
Snatch(prior, event) ==
    IF event = "completed" /\ ~(prior # None /\ IsSeeder(prior[1])) THEN 1 ELSE 0

\* An announce with event started, completed or "": the peer is created
\* with the defaults if the swarm does not hold it, updated from the
\* announce, counted, its deltas are enqueued, and the peers of the swarm
\* are selected for the response.
UpsertWith(t, p, ann, multi_up, multi_dn) ==
    LET k == <<t, p>>
        prior == swarm[k]
        base == IF prior = None THEN makePeer(t, p, now) ELSE prior[1]
        req == IF ann.Event = "completed" THEN [ann EXCEPT !.Left = 0] ELSE ann
        r == PeerUpdate(base, req, now)
        peer == [r.peer EXCEPT !.Active = TRUE, !.AnnounceLast = now]
        pk == PasskeyOf(p)
        udelta == [ uploaded |-> (r.ul * multi_up) % U64,
                    downloaded |-> (r.dl * multi_dn) % U64,
                    announces |-> 1 ]
        tdelta == [ uploaded |-> r.ul, downloaded |-> r.dl, announces |-> 1,
                    snatches |-> Snatch(prior, ann.Event) ]
        pdelta == [uploaded |-> r.ul, downloaded |-> r.dl, announces |-> 1]
    IN  /\ swarm' = [swarm EXCEPT ![k] = <<peer>>]
        /\ torrents' = [torrents EXCEPT ![t] =
                [ Seeders |-> @.Seeders + SeederChange(prior, peer),
                  Leechers |-> @.Leechers + LeecherChange(prior, peer),
                  Snatches |-> AddU64(@.Snatches, tdelta.snatches),
                  Uploaded |-> AddU64(@.Uploaded, r.ul),
                  Downloaded |-> AddU64(@.Downloaded, r.dl),
                  Announces |-> AddU64(@.Announces, 1) ]]
        /\ users' = [users EXCEPT ![pk] =
                [ Uploaded |-> AddU64(@.Uploaded, udelta.uploaded),
                  Downloaded |-> AddU64(@.Downloaded, udelta.downloaded),
                  Announces |-> AddU64(@.Announces, 1) ]]
        /\ redisSets' = IF prior = None THEN AddPeer(redisSets, t, p) ELSE redisSets
        /\ redisHashes' = PeerSync(redisHashes, peer)
        /\ dbPeers' = IF prior = None
                      THEN peer_add(dbPeers, t, p, peer.IP, peer.Port,
                                    peer.AnnounceFirst, peer.AnnounceLast,
                                    peer.Downloaded, peer.Uploaded, peer.Left)
                      ELSE dbPeers
        /\ accUser' = [accUser EXCEPT ![pk] = AddStats(@, udelta)]
        /\ accTorrent' = [accTorrent EXCEPT ![t] = AddStats(@, tdelta)]
        /\ accPeer' = [accPeer EXCEPT ![k] = PeerPending(@, peer, r.ul, r.dl)]
        /\ ledger' = [ledger EXCEPT
                !.user[pk].produced = AddStats(@, udelta),
                !.torrent[t].produced = AddStats(@, tdelta),
                !.peer[k].produced = AddStats(@, pdelta)]
        /\ resp' = Response(p, ann.Event, t, torrents',
                        makeCompactPeers(
                            GetPeers(redisSets', redisHashes', t, MaxPeers, now), p))
        /\ UNCHANGED <<dbUsers, dbTorrents>>

\* The same on a torrent with the default multipliers.
Upsert(t, p, ann) == UpsertWith(t, p, ann, MultiUp, MultiDn)

\* The announce handler.
Announce(t, p, ann) ==
    /\ annTotal < MaxRequests
    /\ annTotal' = annTotal + 1
    /\ IF ann.Event = "stopped"
       THEN IF swarm[<<t, p>>] = None
            THEN StopAbsent(t, p, ann)
            ELSE StopPresent(t, p, ann)
       ELSE Upsert(t, p, ann)
    /\ UNCHANGED <<now, storeWriteErrors, updVars, rcVars, swapVars, auxVars>>

\* The reaper's test of a peer in memory.
Expired(peer, cur_time) == cur_time - peer.AnnounceLast > PeerTTL

RECURSIVE DelPeers(_, _)
DelPeers(sets, keys) ==
    IF keys = {} THEN sets
    ELSE LET k == CHOOSE x \in keys : TRUE
         IN  DelPeers(DelPeer(sets, k[1], k[2]), keys \ {k})

\* One run of the reaper: the expired peers leave their swarms, the counts
\* of the swarms are recomputed, and the store reaps its rows.
Reap ==
    LET evicted == {k \in PeerKeys : swarm[k] # None /\ Expired(swarm[k][1], now)}
        kept == [k \in PeerKeys |-> IF k \in evicted THEN None ELSE swarm[k]]
    IN  /\ swarm' = kept
        /\ torrents' = [t \in TorrentIDs |->
                [ torrents[t] EXCEPT
                    !.Seeders = CountPeers(kept, t, TRUE),
                    !.Leechers = CountPeers(kept, t, FALSE) ]]
        /\ redisSets' = DelPeers(redisSets, evicted)
        /\ dbPeers' = peer_reap(dbPeers, now - PeerTTL)
        /\ UNCHANGED <<now, users, redisHashes, dbUsers, dbTorrents, accVars, resp,
                       annTotal, storeWriteErrors, updVars, rcVars, swapVars, auxVars>>

\* The store calls of one batch: one procedure call for each entry.
RECURSIVE FlushUsers(_, _, _)
FlushUsers(tbl, batch, keys) ==
    IF keys = {} THEN tbl
    ELSE LET k == CHOOSE x \in keys : TRUE
         IN  FlushUsers(
                 user_update_stats(tbl, k, batch[k].announces, batch[k].uploaded,
                                   batch[k].downloaded),
                 batch, keys \ {k})

RECURSIVE FlushTorrents(_, _, _, _)
FlushTorrents(tbl, batch, tor, keys) ==
    IF keys = {} THEN tbl
    ELSE LET k == CHOOSE x \in keys : TRUE
         IN  FlushTorrents(
                 torrent_update_stats(tbl, k, batch[k].downloaded, batch[k].uploaded,
                                      batch[k].announces, batch[k].snatches,
                                      tor[k].Seeders, tor[k].Leechers),
                 batch, tor, keys \ {k})

RECURSIVE FlushPeers(_, _, _)
FlushPeers(tbl, batch, keys) ==
    IF keys = {} THEN tbl
    ELSE LET k == CHOOSE x \in keys : TRUE
             b == batch[k][1]
         IN  FlushPeers(
                 peer_update_stats(tbl, k[1], k[2], b.downloaded, b.uploaded,
                                   b.announces, b.announce_last, b.speed_dn,
                                   b.speed_up, b.speed_dn_max, b.speed_up_max),
                 batch, keys \ {k})

\* The additive part of a pending peer entry.
PeerAdditive(pending) ==
    IF pending = None THEN ZeroStats
    ELSE [ uploaded |-> pending[1].uploaded,
           downloaded |-> pending[1].downloaded,
           announces |-> pending[1].announces ]

\* One tick of the batch writer.  Each accumulator is swapped out and its
\* batch is passed to the store; the batch of a store call that fails is
\* merged back into the accumulator.
BatchTick(failUser, failTorrent, failPeer) ==
    LET failures == (IF failUser THEN 1 ELSE 0) + (IF failTorrent THEN 1 ELSE 0)
                        + (IF failPeer THEN 1 ELSE 0)
        pending == {k \in PeerKeys : accPeer[k] # None}
    IN  /\ storeWriteErrors + failures <= MaxWriteErrors
        /\ storeWriteErrors' = storeWriteErrors + failures
        /\ dbUsers' = IF failUser THEN dbUsers
                      ELSE FlushUsers(dbUsers, accUser, Passkeys)
        /\ accUser' = IF failUser THEN accUser
                      ELSE [pk \in Passkeys |-> ZeroStats]
        /\ dbTorrents' = IF failTorrent THEN dbTorrents
                         ELSE FlushTorrents(dbTorrents, accTorrent, torrents, TorrentIDs)
        /\ accTorrent' = IF failTorrent THEN accTorrent
                         ELSE [t \in TorrentIDs |-> ZeroTorrentStats]
        /\ dbPeers' = IF failPeer THEN dbPeers
                      ELSE FlushPeers(dbPeers, accPeer, pending)
        /\ accPeer' = IF failPeer THEN accPeer
                      ELSE [k \in PeerKeys |-> None]
        /\ ledger' =
            [ user |-> [pk \in Passkeys |->
                    IF failUser THEN ledger.user[pk]
                    ELSE [ledger.user[pk] EXCEPT !.handed = AddStats(@, accUser[pk])]],
              torrent |-> [t \in TorrentIDs |->
                    IF failTorrent THEN ledger.torrent[t]
                    ELSE [ledger.torrent[t] EXCEPT !.handed = AddStats(@, accTorrent[t])]],
              peer |-> [k \in PeerKeys |->
                    IF failPeer THEN ledger.peer[k]
                    ELSE [ledger.peer[k] EXCEPT
                            !.handed = AddStats(@, PeerAdditive(accPeer[k]))]] ]
        /\ UNCHANGED <<now, memVars, redisVars, resp, annTotal, updVars, rcVars, swapVars, auxVars>>

Tick ==
    /\ now < MaxClock
    /\ now' = now + 1
    /\ UNCHANGED <<memVars, redisVars, dbVars, accVars, resp, annTotal,
                   storeWriteErrors, updVars, rcVars, swapVars, auxVars>>

\* The swarms under announces, the reaper and the clock.
Next ==
    \/ \E t \in TorrentIDs, p \in PeerIDs : \E ann \in Requests(p) : Announce(t, p, ann)
    \/ Reap
    \/ Tick

Spec == Init /\ [][Next]_vars

\* The accumulators under announces and the batch writer, whose store calls
\* may fail.
BatchNext ==
    \/ \E t \in TorrentIDs, p \in PeerIDs :
            \E ann \in BatchRequests(p) : Announce(t, p, ann)
    \/ \E fu, ft, fp \in BOOLEAN : BatchTick(fu, ft, fp)

SpecBatch == Init /\ [][BatchNext]_vars

\* The peers of a swarm in memory with left = 0 (or with left > 0).
Complete(t) ==
    {p \in PeerIDs : swarm[<<t, p>>] # None /\ swarm[<<t, p>>][1].Left = 0}
Incomplete(t) ==
    {p \in PeerIDs : swarm[<<t, p>>] # None /\ swarm[<<t, p>>][1].Left > 0}

(***************************************************************************)
(* C1: after every announce, stop and reap the seeder count of a torrent   *)
(* is the number of its peers with left = 0 and the leecher count is the   *)
(* number of its peers with left > 0.                                      *)
(***************************************************************************)
C1_CountsMatchSwarm ==
    \A t \in TorrentIDs :
        /\ torrents[t].Seeders = Cardinality(Complete(t))
        /\ torrents[t].Leechers = Cardinality(Incomplete(t))

\* A seeder is counted alone after the reaper has evicted the other peer.
C1_Witness ==
    /\ annTotal = 2
    /\ Complete(1) = {"P1"}
    /\ swarm[<<1, "P2">>] = None
    /\ redisHashes[KeyPeer(1, "P2")] # None
    /\ resp # None /\ resp[1].event # "stopped"
    /\ torrents[1].Seeders = 1 /\ torrents[1].Leechers = 0

\* The step is an announce with the given event, answered in resp'.
AnnounceStep(event) ==
    /\ annTotal' = annTotal + 1
    /\ resp'[1].event = event

\* The peer that the announce answered in resp' is about seeded before it.
WasSeeder ==
    LET k == <<resp'[1].torrent, resp'[1].peer>>
    IN  swarm[k] # None /\ swarm[k][1].Left = 0

(***************************************************************************)
(* C3: snatches grows by exactly one on each transition of a peer into     *)
(* completed and by nothing else; a completed event of a peer that seeds   *)
(* already leaves snatches, seeders and leechers as they are.              *)
(***************************************************************************)
C3_SnatchOncePerCompletion ==
    [][ \A t \in TorrentIDs :
          /\ (AnnounceStep("completed") /\ resp'[1].torrent = t /\ ~WasSeeder)
                => torrents'[t].Snatches = torrents[t].Snatches + 1
          /\ (AnnounceStep("completed") /\ resp'[1].torrent = t /\ WasSeeder)
                => /\ torrents'[t].Snatches = torrents[t].Snatches
                   /\ torrents'[t].Seeders = torrents[t].Seeders
                   /\ torrents'[t].Leechers = torrents[t].Leechers
          /\ ~(AnnounceStep("completed") /\ resp'[1].torrent = t)
                => torrents'[t].Snatches = torrents[t].Snatches ]_vars

\* A peer created by a completed event has sent completed again.
C3_Witness ==
    /\ resp # None /\ resp[1].event = "completed" /\ resp[1].peer = "P1"
    /\ swarm[<<1, "P1">>] # None /\ swarm[<<1, "P1">>][1].Announces = 2
    /\ dbPeers[<<1, "P1">>] # None /\ dbPeers[<<1, "P1">>][1].total_left = 0
    /\ torrents[1].Snatches = 1

\* The peer ids that GetPeers hands to the next announcer of a torrent.
Selectable(t) ==
    LET peers == GetPeers(redisSets, redisHashes, t, MaxPeers, now)
    IN  {peers[i].PeerID : i \in 1..Len(peers)}

(***************************************************************************)
(* C4: a stopped event of a peer of the swarm removes the peer: the peer   *)
(* is no longer in the swarm, no longer in the active set of the torrent,  *)
(* and is not among the peers selected for the announcers that follow.     *)
(***************************************************************************)
C4_StoppedPeerIsGone ==
    (resp # None /\ resp[1].event = "stopped") =>
        LET t == resp[1].torrent
            p == resp[1].peer
        IN  /\ swarm[<<t, p>>] = None
            /\ p \notin redisSets[AddPeerKey(t)]
            /\ p \notin Selectable(t)

\* C34: AddPeer and DelPeer work on the one active set of a torrent that
\* GetPeers reads: whatever the sets in redis hold, a peer id that is added
\* to the set of a torrent and then deleted from it is not a member of the
\* set GetPeers reads, and is not among the peers GetPeers returns.
C34_DelPeerUndoesAddPeer ==
    \A t \in TorrentIDs, p \in PeerIDs :
        LET sets == DelPeer(AddPeer(redisSets, t, p), t, p)
            peers == GetPeers(sets, redisHashes, t, MaxPeers, now)
        IN  /\ p \notin sets[AddPeerKey(t)]
            /\ \A i \in 1..Len(peers) : peers[i].PeerID # p

(***************************************************************************)
(* C5: a stopped event of a peer that the swarm does not hold changes no   *)
(* state, neither counts nor swarm nor store nor accumulators, and is      *)
(* answered with an empty peer list.                                       *)
(***************************************************************************)
C5_StopAbsentIsNoOp ==
    [][ (AnnounceStep("stopped")
            /\ swarm[<<resp'[1].torrent, resp'[1].peer>>] = None)
        => /\ UNCHANGED <<memVars, redisVars, dbVars, accVars>>
           /\ resp'[1].peers = <<>>
           /\ resp'[1].complete = torrents[resp'[1].torrent].Seeders
           /\ resp'[1].incomplete = torrents[resp'[1].torrent].Leechers ]_vars

\* A stopped event of a peer that never announced, with another peer in
\* the swarm.
C5_Witness ==
    /\ annTotal = 2
    /\ resp # None /\ resp[1].event = "stopped" /\ resp[1].peer = "P2"
    /\ redisHashes[KeyPeer(1, "P2")] = None
    /\ swarm[<<1, "P1">>] # None

\* The totals that the batches handed to the store, as a users row and as
\* a torrents row.
UserRow(stats) == stats
TorrentRow(stats) ==
    [ total_uploaded |-> stats.uploaded, total_downloaded |-> stats.downloaded,
      total_completed |-> stats.snatches, announces |-> stats.announces ]

C10_ReapOnlyOlderThanTTL ==
    [][ \A k \in PeerKeys :
          /\ (swarm[k] # None /\ annTotal' = annTotal)
                => (swarm'[k] = None <=> (now' = now /\ Expired(swarm[k][1], now)))
          /\ (dbPeers[k] # None /\ annTotal' = annTotal
                /\ now - dbPeers[k][1].announce_last <= PeerTTL)
                => dbPeers'[k] # None ]_vars

(***************************************************************************)
(* SpecSwap: announces that run beside the batch writer.  An announce      *)
(* begins, updates the swarm, adds its delta to the accumulator and        *)
(* returns; a batch tick swaps the accumulator for an empty one in one     *)
(* atomic step and then calls the store, and merges the batch back into    *)
(* the accumulator when the store call fails.                              *)
(***************************************************************************)
MaxSwaps == 3

Announcers == {"a1", "a2"}

SwInit ==
    /\ UpdIdle
    /\ RcIdle
    /\ MainIdle
    /\ AuxIdle
    /\ swPc = [a \in Announcers |-> "new"]
    /\ swAcc = {}
    /\ swBatch = None
    /\ swSwaps = 0
    /\ swBegin = [a \in Announcers |-> None]
    /\ swEnq = [a \in Announcers |-> None]
    /\ swRet = [a \in Announcers |-> None]
    /\ swFirst = [a \in Announcers |-> None]
    /\ swApplied = [a \in Announcers |-> 0]

\* The request arrives and its handler starts.
SwBegin(a) ==
    /\ swPc[a] = "new"
    /\ swPc' = [swPc EXCEPT ![a] = "begun"]
    /\ swBegin' = [swBegin EXCEPT ![a] = <<swSwaps>>]
    /\ UNCHANGED <<swAcc, swBatch, swSwaps, swEnq, swRet, swFirst, swApplied,
                   updVars, rcVars, mainVars, auxVars>>

\* The handler adds its delta to the accumulator that is current.
SwEnqueue(a) ==
    /\ swPc[a] = "begun"
    /\ swPc' = [swPc EXCEPT ![a] = "enqueued"]
    /\ swAcc' = swAcc \cup {a}
    /\ swEnq' = [swEnq EXCEPT ![a] = <<swSwaps>>]
    /\ UNCHANGED <<swBatch, swSwaps, swBegin, swRet, swFirst, swApplied,
                   updVars, rcVars, mainVars, auxVars>>

\* The handler returns its response.
SwReturn(a) ==
    /\ swPc[a] = "enqueued"
    /\ swPc' = [swPc EXCEPT ![a] = "returned"]
    /\ swRet' = [swRet EXCEPT ![a] = <<swSwaps>>]
    /\ UNCHANGED <<swAcc, swBatch, swSwaps, swBegin, swEnq, swFirst, swApplied,
                   updVars, rcVars, mainVars, auxVars>>

\* What the swap leaves in the accumulator.
SwapLeavesCopy(acc) == acc
SwapLeaves(acc) == {}

\* The batch tick swaps the accumulator out.
SwSwap ==
    /\ swBatch = None
    /\ swSwaps < MaxSwaps
    /\ swSwaps' = swSwaps + 1
    /\ swBatch' = <<swAcc>>
    /\ swAcc' = SwapLeaves(swAcc)
    /\ swFirst' = [a \in Announcers |->
            IF a \in swAcc /\ swFirst[a] = None THEN <<swSwaps'>> ELSE swFirst[a]]
    /\ UNCHANGED <<swPc, swBegin, swEnq, swRet, swApplied, updVars, rcVars, mainVars, auxVars>>

\* The store call of the batch returns: the batch is stored, or it is
\* merged back into the accumulator.
SwStore(ok) ==
    /\ swBatch # None
    /\ swBatch' = None
    /\ swAcc' = IF ok THEN swAcc ELSE swAcc \cup swBatch[1]
    /\ swApplied' = [a \in Announcers |->
            IF ok /\ a \in swBatch[1] THEN swApplied[a] + 1 ELSE swApplied[a]]
    /\ UNCHANGED <<swPc, swSwaps, swBegin, swEnq, swRet, swFirst,
                   updVars, rcVars, mainVars, auxVars>>

SwNext ==
    \/ \E a \in Announcers : SwBegin(a)
    \/ \E a \in Announcers : SwEnqueue(a)
    \/ \E a \in Announcers : SwReturn(a)
    \/ SwSwap
    \/ \E ok \in BOOLEAN : SwStore(ok)

SpecSwap == SwInit /\ [][SwNext]_vars

\* The places that hold the delta of an announce: the accumulator, the
\* batch in flight, the batches stored.
SwCopies(a) ==
    (IF a \in swAcc THEN 1 ELSE 0)
        + (IF swBatch # None /\ a \in swBatch[1] THEN 1 ELSE 0)
        + swApplied[a]

(***************************************************************************)
(* C9: with announces running beside the swap-and-drain, every delta an    *)
(* announce has enqueued is in exactly one place and is stored in at most  *)
(* one batch; it is drained by the first swap after its enqueue, so the    *)
(* delta of an announce that returned before a swap is in that batch       *)
(* (unless an earlier batch took it), and the delta of an announce in      *)
(* flight during swaps is in the batch of one of them or in the next one.  *)
(***************************************************************************)
C9_EachDeltaInOneBatch ==
    \A a \in Announcers :
        /\ SwCopies(a) = (IF swEnq[a] = None THEN 0 ELSE 1)
        /\ swApplied[a] <= 1
        /\ swFirst[a] # None =>
              /\ swEnq[a] # None
              /\ swFirst[a][1] = swEnq[a][1] + 1
              /\ swFirst[a][1] > swBegin[a][1]
              /\ swRet[a] # None => swFirst[a][1] <= swRet[a][1] + 1
        /\ (swRet[a] # None /\ swRet[a][1] < swSwaps) => swFirst[a] # None
        /\ (swEnq[a] # None /\ swEnq[a][1] < swSwaps) => swFirst[a] # None

\* One announce returned before the first swap and is stored with its
\* batch; the other was in flight during that swap and went into the next
\* batch, whose store call failed once.
C9_Witness ==
    /\ swRet["a1"] = <<0>> /\ swFirst["a1"] = <<1>> /\ swApplied["a1"] = 1
    /\ swBegin["a2"] = <<0>> /\ swEnq["a2"] = <<1>> /\ swFirst["a2"] = <<2>>
    /\ swSwaps = 3 /\ swBatch # None /\ "a2" \in swBatch[1]

(***************************************************************************)
(* SpecHex: InfoHashFromHex and InfoHash.String (src/store/torrent.go).    *)
(* A string is the sequence of its characters; the 20 bytes of an InfoHash *)
(* are scaled down to HashLen bytes, the 40 characters to 2 * HashLen.     *)
(***************************************************************************)
HashLen == 1

\* The characters the strings are made of: digits, lower and upper case
\* hex letters, and a letter that is no hex digit.
HexChars == {"0", "9", "a", "f", "A", "F", "g"}

\* encoding/hex: the value of a hex digit of either case, -1 for any other
\* character.
HexVal(c) ==
    CASE c = "0" -> 0 [] c = "1" -> 1 [] c = "2" -> 2 [] c = "3" -> 3
      [] c = "4" -> 4 [] c = "5" -> 5 [] c = "6" -> 6 [] c = "7" -> 7
      [] c = "8" -> 8 [] c = "9" -> 9
      [] c \in {"a", "A"} -> 10 [] c \in {"b", "B"} -> 11
      [] c \in {"c", "C"} -> 12 [] c \in {"d", "D"} -> 13
      [] c \in {"e", "E"} -> 14 [] c \in {"f", "F"} -> 15
      [] OTHER -> -1

\* fmt's verb %x (and %X): the digits of a nibble.
LowerDigits ==
    <<"0", "1", "2", "3", "4", "5", "6", "7", "8", "9", "a", "b", "c", "d", "e", "f">>
UpperDigits ==
    <<"0", "1", "2", "3", "4", "5", "6", "7", "8", "9", "A", "B", "C", "D", "E", "F">>

\* hex.DecodeString of a string of even length: its bytes, or None when a
\* character is no hex digit.
DecodeString(h) ==
    IF \E i \in 1..Len(h) : HexVal(h[i]) < 0 THEN None
    ELSE <<[i \in 1..(Len(h) \div 2) |-> 16 * HexVal(h[2 * i - 1]) + HexVal(h[2 * i])]>>

\* A variant that writes what was decoded to the target before it looks at
\* the error.
InfoHashFromHexCopyFirst(infoHash, h) ==
    IF Len(h) # 2 * HashLen
    THEN [hash |-> infoHash, err |-> <<"ErrInvalidInfoHash">>]
    ELSE LET b == DecodeString(h)
         IN  IF b = None
             THEN [hash |-> [i \in 1..HashLen |-> 0], err |-> <<"InvalidByteError">>]
             ELSE [hash |-> [i \in 1..HashLen |-> b[1][i]], err |-> None]

\* InfoHashFromHex: the target after the call and the error returned.
InfoHashFromHex(infoHash, h) ==
    IF Len(h) # 2 * HashLen
    THEN [hash |-> infoHash, err |-> <<"ErrInvalidInfoHash">>]
    ELSE LET b == DecodeString(h)
         IN  IF b = None
             THEN [hash |-> infoHash, err |-> <<"InvalidByteError">>]
             ELSE [hash |-> [i \in 1..HashLen |-> b[1][i]], err |-> None]

\* InfoHash.String: fmt.Sprintf("%x", ih[:]).
InfoHashStringUpper(ih) ==
    [i \in 1..(2 * Len(ih)) |->
        IF i % 2 = 1 THEN UpperDigits[(ih[(i + 1) \div 2] \div 16) + 1]
        ELSE UpperDigits[(ih[i \div 2] % 16) + 1]]
InfoHashString(ih) ==
    [i \in 1..(2 * Len(ih)) |->
        IF i % 2 = 1 THEN LowerDigits[(ih[(i + 1) \div 2] \div 16) + 1]
        ELSE LowerDigits[(ih[i \div 2] % 16) + 1]]

HexInputs == UNION {[1..n -> HexChars] : n \in 0..(2 * HashLen + 1)}

\* The InfoHash values a target holds before the call.
HexTargets == {[i \in 1..HashLen |-> 0], [i \in 1..HashLen |-> 171]}

HexInit ==
    /\ McIdle
    /\ CfgIdle
    /\ ShIdle
    /\ AtIdle
    /\ FlIdle
    /\ LifeIdle
    /\ TmIdle
    /\ AdmIdle
    /\ WlIdle
    /\ MetIdle
    /\ EncIdle
    /\ UpdIdle
    /\ RcIdle
    /\ SwIdle
    /\ MainIdle
    /\ hexIn \in HexInputs
    /\ hexHash \in HexTargets
    /\ hexErr = None
    /\ hexStr = None
    /\ hexBack = None
    /\ hexPc = "input"

\* InfoHashFromHex(&hexHash, hexIn)
HexParse ==
    /\ hexPc = "input"
    /\ LET r == InfoHashFromHex(hexHash, hexIn)
       IN  /\ hexHash' = r.hash
           /\ hexErr' = r.err
    /\ hexPc' = "parsed"
    /\ UNCHANGED <<hexIn, hexStr, hexBack, updVars, rcVars, mainVars, swapVars, encVars, metVars, wlVars, admVars, tmVars, lifeVars, flVars, atVars, shVars, cfgVars, mcVars>>

\* hexHash.String()
HexFormat ==
    /\ hexPc = "parsed"
    /\ hexErr = None
    /\ hexStr' = InfoHashString(hexHash)
    /\ hexPc' = "formatted"
    /\ UNCHANGED <<hexIn, hexHash, hexErr, hexBack, updVars, rcVars, mainVars, swapVars, encVars, metVars, wlVars, admVars, tmVars, lifeVars, flVars, atVars, shVars, cfgVars, mcVars>>

\* InfoHashFromHex(&back, hexStr) into a zeroed InfoHash
HexReparse ==
    /\ hexPc = "formatted"
    /\ hexBack' = <<InfoHashFromHex([i \in 1..HashLen |-> 0], hexStr)>>
    /\ hexPc' = "done"
    /\ UNCHANGED <<hexIn, hexHash, hexErr, hexStr, updVars, rcVars, mainVars, swapVars, encVars, metVars, wlVars, admVars, tmVars, lifeVars, flVars, atVars, shVars, cfgVars, mcVars>>

HexNext ==
    \/ HexParse
    \/ HexFormat
    \/ HexReparse

SpecHex == HexInit /\ [][HexNext]_vars

\* A character with an upper case hex letter turned to lower case.
LowerOf(c) ==
    CASE c = "A" -> "a" [] c = "B" -> "b" [] c = "C" -> "c"
      [] c = "D" -> "d" [] c = "E" -> "e" [] c = "F" -> "f" [] OTHER -> c

(***************************************************************************)
(* C20 as stated: for every valid hex string s of the full length, the     *)
(* string form of the InfoHash that InfoHashFromHex(s) produced equals s,  *)
(* and parsing the string form of an InfoHash yields that InfoHash.        *)
(***************************************************************************)
C20_HexRoundTripIsIdentity ==
    /\ hexPc \in {"formatted", "done"} => hexStr = hexIn
    /\ hexPc = "done" => (hexBack[1].err = None /\ hexBack[1].hash = hexHash)

(***************************************************************************)
(* C20 amended: the string form of the InfoHash that InfoHashFromHex(s)    *)
(* produced is s with its upper case hex letters in lower case, so it      *)
(* equals s exactly when s holds no upper case letter; and parsing the     *)
(* string form of an InfoHash yields that InfoHash.                        *)
(***************************************************************************)
C20_HexRoundTripLowerCases ==
    /\ hexPc \in {"formatted", "done"} =>
          /\ Len(hexStr) = Len(hexIn)
          /\ \A i \in 1..Len(hexIn) : hexStr[i] = LowerOf(hexIn[i])
          /\ (hexStr = hexIn) <=> (\A i \in 1..Len(hexIn) : hexIn[i] \notin {"A", "F"})
    /\ hexPc = "done" => (hexBack[1].err = None /\ hexBack[1].hash = hexHash)

\* A string with an upper case letter went through the round trip.
C20_Witness ==
    /\ hexPc = "done"
    /\ hexIn[1] = "A"
    /\ hexStr[1] = "a"
    /\ hexBack[1].hash = hexHash

\* C39: InfoHashFromHex fails and leaves the target as it was for every
\* input that is not a hex string of the full length: ErrInvalidInfoHash
\* for another length, the error of the decoder for a string of the full
\* length with a character that is no hex digit; it succeeds on the hex
\* strings of the full length and on no other input.
C39_FromHexRejectsAndKeepsTarget ==
    [][HexParse =>
        LET full == Len(hexIn) = 2 * HashLen
            hex == \A i \in 1..Len(hexIn) : HexVal(hexIn[i]) >= 0
        IN  /\ (hexErr' = None) <=> (full /\ hex)
            /\ ~full => hexErr' = <<"ErrInvalidInfoHash">>
            /\ (full /\ ~hex) => hexErr' = <<"InvalidByteError">>
            /\ hexErr' # None => hexHash' = hexHash]_vars

\* A string of the full length that starts with a letter that is no hex
\* digit was parsed into a target that was not zero: the decoder's error
\* is returned and the target holds what it held.
C39_Witness ==
    /\ hexPc = "parsed"
    /\ Len(hexIn) = 2 * HashLen
    /\ hexIn[1] = "g"
    /\ hexErr = <<"InvalidByteError">>
    /\ hexHash = [i \in 1..HashLen |-> 171]

(***************************************************************************)
(* SpecEnc: the compact peer field of one response.  The swarm of a        *)
(* torrent is in redis; GetPeers selects at most min(numwant, MaxPeers)    *)
(* peers and makeCompactPeers (src/peer.go) encodes them.                  *)
(***************************************************************************)
\* A requester that is not in the swarm (it has stopped).
Outsider == "P3"

\* The text of the IPv6 address of a peer: not an IPv4 address in any form.
IPv6Of(peer_id) == <<"colon", IPOf(peer_id)[4]>>

\* The address a stored peer announced: either family, and the ports 0,
\* 1 and 258 (the two port bytes differ).
EncAddrs == [v6 : BOOLEAN, Port : {0, 1, 258}]

\* The peer HMSET stored for peer_id with the address a.
EncPeer(torrent_id, peer_id, a) ==
    [makePeer(torrent_id, peer_id, 0) EXCEPT
        !.IP = IF a.v6 THEN IPv6Of(peer_id) ELSE IPString(IPOf(peer_id)),
        !.Port = a.Port,
        !.Active = TRUE]

\* The swarms: each peer id is absent or stored with an address.
EncSwarms == [PeerIDs -> {None} \cup {<<a>> : a \in EncAddrs}]

\* The peers a response carries at most: numwant capped by MaxPeers.
PeersWanted(numwant) == Min(numwant, MaxPeers)

EncInit ==
    /\ McIdle
    /\ CfgIdle
    /\ ShIdle
    /\ AtIdle
    /\ FlIdle
    /\ LifeIdle
    /\ TmIdle
    /\ AdmIdle
    /\ WlIdle
    /\ MetIdle
    /\ UpdIdle
    /\ RcIdle
    /\ SwIdle
    /\ MainIdle
    /\ HexIdle
    /\ \E stored \in EncSwarms, t \in TorrentIDs :
          /\ encSets = [k \in SetKeys |->
                            IF k = AddPeerKey(t)
                            THEN {p \in PeerIDs : stored[p] # None} ELSE {}]
          /\ encHashes = [k \in HashKeys |->
                            IF \E p \in PeerIDs : stored[p] # None /\ k = KeyPeer(t, p)
                            THEN LET p == CHOOSE q \in PeerIDs : k = KeyPeer(t, q)
                                 IN  <<EncPeer(t, p, stored[p][1])>>
                            ELSE None]
    /\ encWant \in 0..(MaxPeers + 1)
    /\ encSkip \in PeerIDs \cup {Outsider}
    /\ encList = None
    /\ encOut = None

\* GetPeers(r, torrent_id, max_peers)
EncSelect ==
    /\ encList = None
    /\ \E t \in TorrentIDs :
          encList' = <<GetPeers(encSets, encHashes, t, PeersWanted(encWant), 0)>>
    /\ UNCHANGED <<encSets, encHashes, encWant, encSkip, encOut,
                   updVars, rcVars, mainVars, swapVars, hexVars, metVars, wlVars, admVars, tmVars, lifeVars, flVars, atVars, shVars, cfgVars, mcVars>>

\* makeCompactPeers(peers, skip_id)
EncEncode ==
    /\ encList # None
    /\ encOut = None
    /\ encOut' = <<makeCompactPeers(encList[1], encSkip)>>
    /\ UNCHANGED <<encSets, encHashes, encWant, encSkip, encList,
                   updVars, rcVars, mainVars, swapVars, hexVars, metVars, wlVars, admVars, tmVars, lifeVars, flVars, atVars, shVars, cfgVars, mcVars>>

EncNext ==
    \/ EncSelect
    \/ EncEncode

SpecEnc == EncInit /\ [][EncNext]_vars

\* The peers of the list that are neither the requester nor on port 0.
EncKept == SelectSeq(encList[1], LAMBDA q : q.PeerID # encSkip /\ q.Port # 0)

\* C17: the peers field of a compact response has a length that is a
\* multiple of 6 and at most 6 * min(numwant, MaxPeers), whatever the
\* address family and port of the peers of the swarm.
C17_CompactLengthMultipleOfSix ==
    encOut # None =>
        /\ Len(encOut[1]) % 6 = 0
        /\ Len(encOut[1]) <= 6 * Min(encWant, MaxPeers)

\* The records of a list of peers, one after the other.
RECURSIVE Records(_)
Records(peers) ==
    IF peers = <<>> THEN <<>>
    ELSE CompactRecord(Head(peers).IP, Head(peers).Port) \o Records(Tail(peers))

\* C18: the compact peer list holds no record of the requester and none of
\* a peer on port 0, and it holds the record of every other peer of the
\* input exactly once, in input order.
C18_OthersOnceInOrder ==
    encOut # None => encOut[1] = Records(EncKept)

\* A list with the requester, entries on port 0 and one other peer has been
\* encoded, and the output is the one record of the other peer.
C18_Witness ==
    /\ encOut # None
    /\ \E i \in 1..Len(encList[1]) : encList[1][i].Port = 0
    /\ \E i \in 1..Len(encList[1]) :
          encList[1][i].PeerID = encSkip /\ encList[1][i].Port # 0
    /\ Len(EncKept) = 1
    /\ Len(encOut[1]) = 6

\* C33: GetPeers(torrent, max_peers) returns at most max_peers peers, and
\* every entry it returns is a peer of the active set of a torrent: none is
\* a default-valued entry with an empty peer id, an empty IP and port 0.
C33_GetPeersAtMostMaxAndStored ==
    encList # None =>
        /\ Len(encList[1]) <= PeersWanted(encWant)
        /\ \A i \in 1..Len(encList[1]) :
              /\ encList[1][i] # ZeroPeer
              /\ \E k \in SetKeys : encList[1][i].PeerID \in encSets[k]

\* The bytes read as 6-byte records: 4 address bytes and a big-endian port.
RECURSIVE DecodeCompact(_)
DecodeCompact(bytes) ==
    IF Len(bytes) < 6 THEN <<>>
    ELSE <<[ip |-> IPString(SubSeq(bytes, 1, 4)), port |-> bytes[5] * 256 + bytes[6]]>>
            \o DecodeCompact(SubSeq(bytes, 7, Len(bytes)))

\* C19: decoding the compact bytes as 6-byte records gives the (ip, port)
\* tuples of the encoded peers, in order.
C19_DecodeGivesTuples ==
    encOut # None =>
        DecodeCompact(encOut[1])
            = [i \in 1..Len(EncKept) |-> [ip |-> EncKept[i].IP, port |-> EncKept[i].Port]]

(***************************************************************************)
(* SpecMetrics: src/metrics/metrics.go.  The request path counts each      *)
(* announce; Get reads the counters for the metrics page.                  *)
(***************************************************************************)
MaxCounted == 3

\* The outcomes an announce is counted under.
AnnounceStatuses == {"OK", "Unauthorized", "InvalidInfoHash", "Malformed"}

\* The execution times of an announce, in ns.
ExecTimes == {1, 4}

\* The counters at process start.
ZeroCounters ==
    [ AnnounceTotal |-> 0, AnnounceStatusOK |-> 0, AnnounceStatusUnauthorized |-> 0,
      AnnounceStatusInvalidInfoHash |-> 0, AnnounceStatusMalformed |-> 0 ]

\* The counter of an outcome.
StatusCounter(status) ==
    CASE status = "OK" -> "AnnounceStatusOK"
      [] status = "Unauthorized" -> "AnnounceStatusUnauthorized"
      [] status = "InvalidInfoHash" -> "AnnounceStatusInvalidInfoHash"
      [] OTHER -> "AnnounceStatusMalformed"

\* AddAnnounceTime
AddAnnounceTime(times, t) == Append(times, t)

RECURSIVE SumTimes(_)
SumTimes(times) == IF times = <<>> THEN 0 ELSE Head(times) + SumTimes(Tail(times))

\* A variant that leaves the slice as it is.
avgExecTimeKeep(times) ==
    [avg |-> IF Len(times) > 0 THEN SumTimes(times) \div Len(times) ELSE 0, times |-> times]

\* avgExecTime: the average, and the slice it leaves.
avgExecTime(times) ==
    IF Len(times) > 0
    THEN [avg |-> SumTimes(times) \div Len(times), times |-> <<>>]
    ELSE [avg |-> 0, times |-> times]

\* Get, lines 166-171: each atomic.SwapInt64(&c, 0) returns the counter and
\* leaves 0.
GetAnnounces(counters, times) ==
    [ m |-> [ AnnounceTotal |-> counters.AnnounceTotal,
              AnnounceStatusOK |-> counters.AnnounceStatusOK,
              AnnounceStatusUnauthorized |-> counters.AnnounceStatusUnauthorized,
              AnnounceStatusInvalidInfoHash |-> counters.AnnounceStatusInvalidInfoHash,
              AnnounceStatusMalformed |-> counters.AnnounceStatusMalformed,
              AnnounceExecTimesNsAvg |-> avgExecTime(times).avg ],
      counters |-> ZeroCounters,
      times |-> avgExecTime(times).times ]

MetInit ==
    /\ McIdle
    /\ CfgIdle
    /\ ShIdle
    /\ AtIdle
    /\ FlIdle
    /\ LifeIdle
    /\ TmIdle
    /\ AdmIdle
    /\ WlIdle
    /\ UpdIdle
    /\ RcIdle
    /\ SwIdle
    /\ MainIdle
    /\ HexIdle
    /\ EncIdle
    /\ metCounters = ZeroCounters
    /\ metTimes = <<>>
    /\ metGot = None
    /\ metCounted = 0

\* The request path counts an announce: the total, the counter of its
\* outcome and, for a successful announce, its execution time.
MetAnnounce(status, t) ==
    /\ metCounted < MaxCounted
    /\ metCounters' = [metCounters EXCEPT !.AnnounceTotal = @ + 1,
                                          ![StatusCounter(status)] = @ + 1]
    /\ metTimes' = IF status = "OK" THEN AddAnnounceTime(metTimes, t) ELSE metTimes
    /\ metCounted' = metCounted + 1
    /\ UNCHANGED <<metGot, updVars, rcVars, mainVars, swapVars, hexVars, encVars, wlVars, admVars, tmVars, lifeVars, flVars, atVars, shVars, cfgVars, mcVars>>

\* Get()
MetGet ==
    /\ LET r == GetAnnounces(metCounters, metTimes)
       IN  /\ metGot' = <<[m |-> r.m, counted |-> metCounted]>>
           /\ metCounters' = r.counters
           /\ metTimes' = r.times
    /\ UNCHANGED <<metCounted, updVars, rcVars, mainVars, swapVars, hexVars, encVars, wlVars, admVars, tmVars, lifeVars, flVars, atVars, shVars, cfgVars, mcVars>>

MetNext ==
    \/ \E status \in AnnounceStatuses, t \in ExecTimes : MetAnnounce(status, t)
    \/ MetGet

SpecMetrics == MetInit /\ [][MetNext]_vars

\* C16: a read of the metrics does not reset ann_total: the ann_total a
\* read reports is the number of announces counted since the process
\* started.
C16_TotalCountsSinceStart ==
    metGot # None => metGot[1].m.AnnounceTotal = metGot[1].counted

(***************************************************************************)
(* SpecWL: the client whitelist.  The admin handlers whitelistAdd,         *)
(* whitelistDelete and whitelistGet (src/unnamed/part_000) work on         *)
(* Tracker.Whitelist under the tracker's RWMutex; the announce path checks *)
(* a client with IsValidClient (src/peer.go).  One request of each kind    *)
(* runs, each in its own goroutine.                                        *)
(***************************************************************************)
\* The characters of the strings of the model.
Chars(s) ==
    CASE s = "P1" -> <<"P", "1">>
      [] s = "P2" -> <<"P", "2">>
      [] s = "P3" -> <<"P", "3">>
      [] s = "P" -> <<"P">>
      [] s = "Q" -> <<"Q">>
      [] s = "1" -> <<"1">>
      [] s = "P1x" -> <<"P", "1", "x">>
      [] OTHER -> <<>>

\* strings.HasPrefix on the characters of two strings.
HasPrefixAnywhere(s, prefix) ==
    \E i \in 0..(Len(s) - Len(prefix)) : SubSeq(s, i + 1, i + Len(prefix)) = prefix
HasPrefix(s, prefix) ==
    Len(s) >= Len(prefix) /\ SubSeq(s, 1, Len(prefix)) = prefix

\* IsValidClient: the loop over the whitelist.
RECURSIVE IsValidClient(_, _)
IsValidClient(whitelist, peer_id) ==
    IF whitelist = <<>> THEN FALSE
    ELSE IF HasPrefix(Chars(peer_id), Chars(Head(whitelist))) THEN TRUE
    ELSE IsValidClient(Tail(whitelist), peer_id)

\* The order in which a whitelist is ranged over (taken to be one fixed
\* order).
PrefixOrder == <<"1", "P", "P1", "P1x", "Q">>
Ranged(set) == SelectSeq(PrefixOrder, LAMBDA x : x \in set)

WlPrefixes == {"P", "Q"}
WlProcs == {"add", "del", "get", "chk"}
WlWriters == {"add", "del"}

WlInit ==
    /\ McIdle
    /\ CfgIdle
    /\ ShIdle
    /\ AtIdle
    /\ FlIdle
    /\ LifeIdle
    /\ TmIdle
    /\ AdmIdle
    /\ UpdIdle
    /\ RcIdle
    /\ SwIdle
    /\ MainIdle
    /\ HexIdle
    /\ EncIdle
    /\ MetIdle
    /\ wlArgs \in [add : WlPrefixes, del : WlPrefixes, chk : {"P1"}]
    /\ wlMem \in SUBSET WlPrefixes
    /\ wlStore = wlMem
    /\ rwWriter = None
    /\ rwReaders = {}
    /\ rwPending = {}
    /\ wlPc = [p \in WlProcs |-> "start"]
    /\ wlNew = None
    /\ wlSeen = [p \in {"get", "chk"} |-> None]
    /\ wlRaced = FALSE
    /\ wlVersions = {wlMem}

WlGoto(p, label) == wlPc' = [wlPc EXCEPT ![p] = label]

\* RWMutex.RLock returns: no writer holds the lock and none waits for it.
CanRLock == rwWriter = None /\ rwPending = {}

\* whitelistAdd, lines 140-142: the store call; on an error the handler
\* aborts the response and goes on.
AddStore(ok) ==
    /\ wlPc["add"] = "start"
    /\ wlStore' = IF ok THEN wlStore \cup {wlArgs.add} ELSE wlStore
    /\ WlGoto("add", "stored")
    /\ UNCHANGED <<wlArgs, wlMem, rwWriter, rwReaders, rwPending, wlNew, wlSeen,
                   wlRaced, wlVersions,
                   updVars, rcVars, mainVars, swapVars, hexVars, encVars, metVars, admVars, tmVars, lifeVars, flVars, atVars, shVars, cfgVars, mcVars>>

\* whitelistAdd, line 143: a.t.Lock() is called.
AddLock ==
    /\ wlPc["add"] = "stored"
    /\ rwPending' = rwPending \cup {"add"}
    /\ WlGoto("add", "pending")
    /\ UNCHANGED <<wlArgs, wlMem, wlStore, rwWriter, rwReaders, wlNew, wlSeen,
                   wlRaced, wlVersions,
                   updVars, rcVars, mainVars, swapVars, hexVars, encVars, metVars, admVars, tmVars, lifeVars, flVars, atVars, shVars, cfgVars, mcVars>>

\* RWMutex.Lock returns to a waiting goroutine.
WlAcquire(p) ==
    /\ wlPc[p] = "pending"
    /\ rwWriter = None
    /\ rwReaders = {}
    /\ rwWriter' = <<p>>
    /\ rwPending' = rwPending \ {p}
    /\ WlGoto(p, "locked")
    /\ UNCHANGED <<wlArgs, wlMem, wlStore, rwReaders, wlNew, wlSeen,
                   wlRaced, wlVersions,
                   updVars, rcVars, mainVars, swapVars, hexVars, encVars, metVars, admVars, tmVars, lifeVars, flVars, atVars, shVars, cfgVars, mcVars>>

\* whitelistAdd, line 144: the assignment into the map begins.
AddWriteBegin ==
    /\ wlPc["add"] = "locked"
    /\ WlGoto("add", "writing")
    /\ wlRaced' = (wlRaced \/ wlPc["chk"] = "ranging")
    /\ UNCHANGED <<wlArgs, wlMem, wlStore, rwWriter, rwReaders, rwPending, wlNew,
                   wlSeen, wlVersions,
                   updVars, rcVars, mainVars, swapVars, hexVars, encVars, metVars, admVars, tmVars, lifeVars, flVars, atVars, shVars, cfgVars, mcVars>>

\* whitelistAdd, line 144, and whitelistDelete, line 172: the write to
\* Tracker.Whitelist is done.
WlWrite(p) ==
    /\ wlPc[p] = IF p = "add" THEN "writing" ELSE "locked"
    /\ wlMem' = IF p = "add" THEN wlMem \cup {wlArgs.add} ELSE wlNew[1]
    /\ wlVersions' = wlVersions \cup {wlMem'}
    /\ WlGoto(p, "written")
    /\ UNCHANGED <<wlArgs, wlStore, rwWriter, rwReaders, rwPending, wlNew, wlSeen,
                   wlRaced,
                   updVars, rcVars, mainVars, swapVars, hexVars, encVars, metVars, admVars, tmVars, lifeVars, flVars, atVars, shVars, cfgVars, mcVars>>

\* whitelistAdd, lines 145-146, and whitelistDelete, lines 173-174 with the
\* deferred RUnlock.
WlUnlock(p) ==
    /\ wlPc[p] = "written"
    /\ rwWriter' = None
    /\ rwReaders' = rwReaders \ {p}
    /\ WlGoto(p, "done")
    /\ UNCHANGED <<wlArgs, wlMem, wlStore, rwPending, wlNew, wlSeen,
                   wlRaced, wlVersions,
                   updVars, rcVars, mainVars, swapVars, hexVars, encVars, metVars, admVars, tmVars, lifeVars, flVars, atVars, shVars, cfgVars, mcVars>>

\* whitelistDelete, line 155: a.t.RLock()
DelRLock ==
    /\ wlPc["del"] = "start"
    /\ CanRLock
    /\ rwReaders' = rwReaders \cup {"del"}
    /\ WlGoto("del", "rlocked")
    /\ UNCHANGED <<wlArgs, wlMem, wlStore, rwWriter, rwPending, wlNew, wlSeen,
                   wlRaced, wlVersions,
                   updVars, rcVars, mainVars, swapVars, hexVars, encVars, metVars, admVars, tmVars, lifeVars, flVars, atVars, shVars, cfgVars, mcVars>>

\* whitelistDelete, lines 157-170: the entry of the prefix is looked up and
\* deleted from the store, and newWL is built from the rows left; a store
\* error ends the handler (the deferred RUnlock runs).
DelStore(okDelete, okGetAll) ==
    /\ wlPc["del"] = "rlocked"
    /\ LET found == wlArgs.del \in wlMem
           left == IF okDelete /\ found THEN wlStore \ {wlArgs.del} ELSE wlStore
       IN  /\ wlStore' = left
           /\ IF okDelete /\ okGetAll
              THEN /\ wlNew' = <<left>>
                   /\ WlGoto("del", "built")
                   /\ UNCHANGED rwReaders
              ELSE /\ wlNew' = wlNew
                   /\ WlGoto("del", "done")
                   /\ rwReaders' = rwReaders \ {"del"}
    /\ UNCHANGED <<wlArgs, wlMem, rwWriter, rwPending, wlSeen,
                   wlRaced, wlVersions,
                   updVars, rcVars, mainVars, swapVars, hexVars, encVars, metVars, admVars, tmVars, lifeVars, flVars, atVars, shVars, cfgVars, mcVars>>

\* whitelistDelete, line 171: a.t.Lock() is called with the read lock held.
DelLock ==
    /\ wlPc["del"] = "built"
    /\ rwPending' = rwPending \cup {"del"}
    /\ WlGoto("del", "pending")
    /\ UNCHANGED <<wlArgs, wlMem, wlStore, rwWriter, rwReaders, wlNew, wlSeen,
                   wlRaced, wlVersions,
                   updVars, rcVars, mainVars, swapVars, hexVars, encVars, metVars, admVars, tmVars, lifeVars, flVars, atVars, shVars, cfgVars, mcVars>>

\* whitelistGet, lines 179-180: a.t.RLock()
GetRLock ==
    /\ wlPc["get"] = "start"
    /\ CanRLock
    /\ rwReaders' = rwReaders \cup {"get"}
    /\ WlGoto("get", "rlocked")
    /\ UNCHANGED <<wlArgs, wlMem, wlStore, rwWriter, rwPending, wlNew, wlSeen,
                   wlRaced, wlVersions,
                   updVars, rcVars, mainVars, swapVars, hexVars, encVars, metVars, admVars, tmVars, lifeVars, flVars, atVars, shVars, cfgVars, mcVars>>

\* whitelistGet, lines 181-184: the listing, and the deferred RUnlock.
GetList ==
    /\ wlPc["get"] = "rlocked"
    /\ wlSeen' = [wlSeen EXCEPT !["get"] = <<[set |-> wlMem]>>]
    /\ rwReaders' = rwReaders \ {"get"}
    /\ WlGoto("get", "done")
    /\ UNCHANGED <<wlArgs, wlMem, wlStore, rwWriter, rwPending, wlNew,
                   wlRaced, wlVersions,
                   updVars, rcVars, mainVars, swapVars, hexVars, encVars, metVars, admVars, tmVars, lifeVars, flVars, atVars, shVars, cfgVars, mcVars>>

\* IsValidClient, line 200: the range over the whitelist begins; no lock
\* is taken.
ChkBegin ==
    /\ wlPc["chk"] = "start"
    /\ WlGoto("chk", "ranging")
    /\ wlRaced' = (wlRaced \/ wlPc["add"] = "writing")
    /\ UNCHANGED <<wlArgs, wlMem, wlStore, rwWriter, rwReaders, rwPending, wlNew,
                   wlSeen, wlVersions,
                   updVars, rcVars, mainVars, swapVars, hexVars, encVars, metVars, admVars, tmVars, lifeVars, flVars, atVars, shVars, cfgVars, mcVars>>

\* IsValidClient, lines 200-207: the loop ends.  A loop that overlapped a
\* write to the map is a data race: it returns either answer or the
\* runtime stops the process (concurrent map iteration and map write).
ChkEnd(outcome) ==
    /\ wlPc["chk"] = "ranging"
    /\ IF wlRaced
       THEN wlSeen' = [wlSeen EXCEPT !["chk"] =
                            <<[torn |-> TRUE, set |-> wlMem, result |-> outcome]>>]
       ELSE /\ outcome = IF IsValidClient(Ranged(wlMem), wlArgs.chk)
                         THEN "valid" ELSE "invalid"
            /\ wlSeen' = [wlSeen EXCEPT !["chk"] =
                            <<[torn |-> FALSE, set |-> wlMem, result |-> outcome]>>]
    /\ WlGoto("chk", "done")
    /\ UNCHANGED <<wlArgs, wlMem, wlStore, rwWriter, rwReaders, rwPending, wlNew,
                   wlRaced, wlVersions,
                   updVars, rcVars, mainVars, swapVars, hexVars, encVars, metVars, admVars, tmVars, lifeVars, flVars, atVars, shVars, cfgVars, mcVars>>

WlNext ==
    \/ \E ok \in BOOLEAN : AddStore(ok)
    \/ AddLock
    \/ \E p \in WlWriters : WlAcquire(p)
    \/ AddWriteBegin
    \/ \E p \in WlWriters : WlWrite(p)
    \/ \E p \in WlWriters : WlUnlock(p)
    \/ DelRLock
    \/ \E okDelete \in BOOLEAN, okGetAll \in BOOLEAN : DelStore(okDelete, okGetAll)
    \/ DelLock
    \/ GetRLock
    \/ GetList
    \/ ChkBegin
    \/ \E outcome \in {"valid", "invalid", "fault"} : ChkEnd(outcome)

SpecWL == WlInit /\ [][WlNext]_vars

\* C12: whitelist add and delete replace the whitelist atomically: a
\* concurrent check or listing reads the complete set from before a change
\* or the complete set after it, and the set is never read without
\* synchronization while it is being written.
C12_WhitelistChangesAtomic ==
    /\ ~(wlPc["chk"] = "ranging" /\ wlPc["add"] = "writing")
    /\ wlSeen["get"] # None => wlSeen["get"][1].set \in wlVersions
    /\ wlSeen["chk"] # None =>
            ~wlSeen["chk"][1].torn /\ wlSeen["chk"][1].set \in wlVersions

\* C31: a whitelist delete never waits for the tracker write lock while it
\* holds the tracker read lock itself, so it always comes to its response;
\* after a delete that succeeded the whitelist in memory is the store's and
\* is without the deleted prefix.
C31_DeleteTerminates ==
    /\ ~(wlPc["del"] = "pending" /\ "del" \in rwReaders)
    /\ (wlPc["del"] = "done" /\ wlNew # None)
            => (wlMem = wlNew[1] /\ wlArgs.del \notin wlMem)

\* C32: a prefix is in the whitelist in memory only if it is in the store:
\* an add that the store rejects leaves the whitelist in memory as it was.
\* (A prefix that a delete has taken out of the store is in memory until
\* the delete replaces the whitelist.)
C32_MemoryOnlyIfPersisted ==
    \A x \in wlMem :
        x \in wlStore \/ (x = wlArgs.del /\ wlPc["del"] # "start")

(***************************************************************************)
(* SpecAdmit: the gates of the announce handler (authorization, client     *)
(* whitelist, torrent lookup) in front of the state machine of Spec, and   *)
(* the torrent's multipliers in the counter updates.  The users, the       *)
(* torrents and the whitelist are fixed during a behaviour.                *)
(***************************************************************************)
\* User.Valid
ValidThoughDeleted(u) == u.Passkey # ""
Valid(u) == u.Passkey # "" /\ ~u.IsDeleted

\* Procedure user_by_passkey: the row of the passkey, or None.
user_by_passkey(tbl, in_passkey) == tbl[in_passkey]

\* Procedure torrent_by_infohash: the row of the info hash whose is_deleted
\* is in_deleted, or None.
torrent_by_infohashAny(tbl, in_info_hash, in_deleted) == tbl[in_info_hash]
torrent_by_infohash(tbl, in_info_hash, in_deleted) ==
    IF tbl[in_info_hash] # None /\ tbl[in_info_hash][1].IsDeleted = in_deleted
    THEN tbl[in_info_hash]
    ELSE None

\* The users a passkey may belong to: none, a valid user with downloads
\* enabled or disabled, a deleted user, a user whose passkey is empty.
UserKinds(pk) ==
    {None}
    \cup {<<[Passkey |-> pk, IsDeleted |-> FALSE, DownloadEnabled |-> e]>> : e \in BOOLEAN}
    \cup {<<[Passkey |-> pk, IsDeleted |-> TRUE, DownloadEnabled |-> TRUE]>>,
          <<[Passkey |-> "", IsDeleted |-> FALSE, DownloadEnabled |-> TRUE]>>}

\* The torrents an info hash may belong to: none, a live torrent with the
\* default multipliers or with freeleech and double upload, a deleted
\* torrent (enabled or not), a disabled torrent.
TorrentKinds ==
    {None}
    \cup {<<[IsDeleted |-> d, IsEnabled |-> e, Reason |-> "retired",
             MultiUp |-> MultiUp, MultiDn |-> MultiDn]>> : d \in BOOLEAN, e \in BOOLEAN}
    \cup {<<[IsDeleted |-> FALSE, IsEnabled |-> TRUE, Reason |-> "retired",
             MultiUp |-> 2, MultiDn |-> 0]>>}

\* The whitelists: empty, a prefix shorter than a peer id, a whole peer id,
\* and prefixes that no peer id starts with.
Whitelists == {{}, {"P"}, {"P1", "Q"}, {"1", "P1x", "Q"}}

\* The announces of a peer id: the first peer reports every combination of
\* totals, left and event; the second peer leeches.
AdmRequests(peer_id) ==
    [ PeerID : {peer_id},
      Uploaded : IF peer_id = "P1" THEN {0, 1} ELSE {0},
      Downloaded : IF peer_id = "P1" THEN {0, 1} ELSE {0},
      IPv4 : {IPOf(peer_id)},
      Port : {PortOf(peer_id)},
      Corrupt : {0},
      Left : IF peer_id = "P1" THEN {0, 1} ELSE {1},
      Event : IF peer_id = "P1" THEN {"", "stopped"} ELSE {""} ]

AdmInit ==
    /\ McIdle
    /\ CfgIdle
    /\ ShIdle
    /\ AtIdle
    /\ FlIdle
    /\ LifeIdle
    /\ TmIdle
    /\ UpdIdle
    /\ RcIdle
    /\ SwIdle
    /\ HexIdle
    /\ EncIdle
    /\ MetIdle
    /\ WlIdle
    /\ TrackerStart
    /\ admUsers \in [Passkeys -> UNION {UserKinds(pk) : pk \in Passkeys}]
    /\ \A pk \in Passkeys : admUsers[pk] \in UserKinds(pk)
    /\ admUsers[PasskeyOf("P2")] = <<[Passkey |-> PasskeyOf("P2"), IsDeleted |-> FALSE,
                                      DownloadEnabled |-> TRUE]>>
    /\ admTorrents \in [TorrentIDs -> TorrentKinds]
    /\ admWhitelist \in Whitelists
    /\ admPublic \in BOOLEAN
    /\ admLast = None

\* Authorization: the user of the passkey exists and is valid, and may
\* download unless the announce is of a seeder or a stopped event.
Authorized(user, ann) ==
    /\ user # None
    /\ Valid(user[1])
    /\ ~(~user[1].DownloadEnabled /\ ann.Left > 0 /\ ann.Event # "stopped")

\* The verdict of the gates on an announce, in their order: the status and
\* the failure reason sent to the client.
Admit(t, p, ann) ==
    LET user == user_by_passkey(admUsers, PasskeyOf(p))
        tor == torrent_by_infohash(admTorrents, t, FALSE)
    IN  IF ~Authorized(user, ann)
        THEN [status |-> "Unauthorized", failure |-> "unauthorized"]
        ELSE IF ~admPublic /\ ~IsValidClient(Ranged(admWhitelist), p)
        THEN [status |-> "ClientNotAllowed", failure |-> "client not allowed"]
        ELSE IF tor = None
        THEN [status |-> "NotFound", failure |-> "torrent not found"]
        ELSE IF ~tor[1].IsEnabled
        THEN [status |-> "TorrentDisabled", failure |-> tor[1].Reason]
        ELSE [status |-> "OK", failure |-> ""]

\* The announce handler with its gates.
AdmAnnounce(t, p, ann) ==
    /\ annTotal < MaxRequests
    /\ annTotal' = annTotal + 1
    /\ LET verdict == Admit(t, p, ann)
           user == admUsers[PasskeyOf(p)][1]
           tor == admTorrents[t][1]
       IN  /\ admLast' = <<[ torrent |-> t, peer |-> p, ann |-> ann,
                             status |-> verdict.status, failure |-> verdict.failure ]>>
           /\ IF verdict.status # "OK"
              THEN /\ resp' = None
                   /\ UNCHANGED <<memVars, redisVars, dbVars, accVars>>
              ELSE IF ann.Event = "stopped"
              THEN IF swarm[<<t, p>>] = None
                   THEN StopAbsent(t, p, ann)
                   ELSE StopPresent(t, p, ann)
              ELSE UpsertWith(t, p, ann, tor.MultiUp,
                              IF user.DownloadEnabled THEN tor.MultiDn ELSE 0)
    /\ UNCHANGED <<now, storeWriteErrors, admUsers, admTorrents, admWhitelist, admPublic,
                   updVars, rcVars, swapVars, hexVars, encVars, metVars, wlVars, tmVars, lifeVars, flVars, atVars, shVars, cfgVars, mcVars>>

AdmNext ==
    \E t \in TorrentIDs, p \in PeerIDs : \E ann \in AdmRequests(p) : AdmAnnounce(t, p, ann)

SpecAdmit == AdmInit /\ [][AdmNext]_vars

\* The step is an announce, recorded with its verdict in admLast'.
AdmStep == annTotal' = annTotal + 1 /\ admLast' # None

\* The characters of prefix are the first characters of id.
StartsWith(id, prefix) ==
    /\ Len(prefix) <= Len(id)
    /\ \A i \in 1..Len(prefix) : id[i] = prefix[i]

(***************************************************************************)
(* C11: with tracker_public = false, an announce that is authorized passes *)
(* the whitelist gate if and only if its peer_id starts with the           *)
(* client_prefix of at least one whitelist entry; with an empty whitelist  *)
(* every such announce is rejected with ClientNotAllowed.                  *)
(***************************************************************************)
C11_WhitelistGate ==
    [][ (AdmStep /\ ~admPublic /\ admLast'[1].status # "Unauthorized")
        => ( admLast'[1].status # "ClientNotAllowed"
                <=> \E w \in admWhitelist :
                        StartsWith(Chars(admLast'[1].peer), Chars(w)) ) ]_vars

\* A private tracker has let a client through whose peer id is one of two
\* whitelist entries.
C11_Witness ==
    /\ admLast # None
    /\ ~admPublic
    /\ admWhitelist = {"P1", "Q"}
    /\ admLast[1].peer = "P1"
    /\ admLast[1].status = "OK"

\* The swarm, the counters, the store and the accumulators.
AdmState == <<memVars, redisVars, dbVars, accVars>>

C14_DeletedAndDisabledTorrents ==
    [][ (AdmStep /\ admTorrents[admLast'[1].torrent] # None) =>
        LET a == admLast'[1]
            tor == admTorrents[a.torrent][1]
            past == a.status \notin {"Unauthorized", "ClientNotAllowed"}
        IN  /\ tor.IsDeleted =>
                /\ a.status # "OK"
                /\ a.failure # tor.Reason
                /\ past => a.status = "NotFound"
                /\ UNCHANGED AdmState
            /\ (~tor.IsDeleted /\ ~tor.IsEnabled) =>
                /\ a.status # "OK"
                /\ past => a.failure = tor.Reason
                /\ UNCHANGED AdmState ]_vars

\* An announce to a torrent that is deleted and disabled has been answered
\* with NotFound.
C14_Witness ==
    /\ admLast # None
    /\ admLast[1].status = "NotFound"
    /\ admTorrents[admLast[1].torrent] # None
    /\ admTorrents[admLast[1].torrent][1].IsDeleted
    /\ ~admTorrents[admLast[1].torrent][1].IsEnabled

(***************************************************************************)
(* C15: on a torrent with multi_dn = 0 no announce changes                 *)
(* user.downloaded, and an accepted announce other than stopped adds       *)
(* ul_delta * multi_up to user.uploaded and dl_delta, not multiplied, to   *)
(* torrent.downloaded, where the deltas are max(0, reported - stored).     *)
(***************************************************************************)
C15_FreeleechMultipliers ==
    [][ (AdmStep /\ admTorrents[admLast'[1].torrent] # None
                 /\ admTorrents[admLast'[1].torrent][1].MultiDn = 0) =>
        LET a == admLast'[1]
            tor == admTorrents[a.torrent][1]
            pk == PasskeyOf(a.peer)
            prior == swarm[<<a.torrent, a.peer>>]
            ul_delta == Max(0, a.ann.Uploaded - (IF prior = None THEN 0 ELSE prior[1].Uploaded))
            dl_delta == Max(0, a.ann.Downloaded - (IF prior = None THEN 0 ELSE prior[1].Downloaded))
        IN  /\ users'[pk].Downloaded = users[pk].Downloaded
            /\ (a.status = "OK" /\ a.ann.Event # "stopped") =>
                /\ users'[pk].Uploaded = AddU64(users[pk].Uploaded, ul_delta * tor.MultiUp)
                /\ torrents'[a.torrent].Downloaded
                        = AddU64(torrents[a.torrent].Downloaded, dl_delta) ]_vars


----------------------------------------------------------------------------
\* SpecTime: the time arithmetic of a peer (src/peer.go), applied to one
\* peer at one clock reading: the seconds Update credits to TotalTime and
\* the hit-and-run test IsHNR.

\* Peer.IsHNR, src/peer.go:121-123.  The difference is taken as
\* AnnounceFirst - unixtime(), signed 32-bit, and compared to
\* config.HNRThreshold.
IsHNR(peer, cur_time, threshold) ==
    peer.Left > 0 /\ peer.AnnounceFirst - cur_time > threshold

\* The longest step of the clock between two announces that is drawn.
MaxDt == 4 * AnnInterval + 1

\* The longest step backwards of the clock.  The times are 32-bit, so a
\* difference converted to uint64 never wraps back below 4 * AnnInterval.
MaxBack == U64 - 4 * AnnInterval

\* The hit-and-run thresholds drawn (config.HNRThreshold, positive).
MaxThreshold == 2

TmClocks(last) == { c \in 0..(last + MaxDt) : last - c <= MaxBack }

TmPeers ==
    { [ makePeer(1, "P1", first) EXCEPT !.AnnounceLast = last,
                                        !.Active = active,
                                        !.TotalTime = total,
                                        !.Left = left ] :
        first \in 1..2, last \in 0..MaxTime, active \in BOOLEAN,
        total \in 0..1, left \in 0..1 }

TmInit ==
    /\ McIdle
    /\ CfgIdle
    /\ ShIdle
    /\ AtIdle
    /\ FlIdle
    /\ LifeIdle
    /\ UpdIdle
    /\ RcIdle
    /\ SwIdle
    /\ MainIdle
    /\ HexIdle
    /\ EncIdle
    /\ MetIdle
    /\ WlIdle
    /\ AdmIdle
    /\ \E peer \in TmPeers : \E cur_time \in TmClocks(peer.AnnounceLast) :
         \E threshold \in 1..MaxThreshold :
           tmIn = <<[ peer |-> peer, cur_time |-> cur_time,
                      threshold |-> threshold ]>>
    /\ tmOut = None

\* Peer.Update at tmIn.cur_time: the TotalTime it leaves.
TmUpdate ==
    /\ tmOut = None
    /\ tmOut' = <<[ op |-> "Update",
                    TotalTime |-> TotalTimeAfter(tmIn[1].peer, tmIn[1].cur_time),
                    hnr |-> FALSE ]>>
    /\ UNCHANGED <<tmIn, updVars, rcVars, mainVars, swapVars, hexVars, encVars, metVars, wlVars, admVars, lifeVars, flVars, atVars, shVars, cfgVars, mcVars>>

\* Peer.IsHNR at tmIn.cur_time.
TmIsHNR ==
    /\ tmOut = None
    /\ tmOut' = <<[ op |-> "IsHNR",
                    TotalTime |-> tmIn[1].peer.TotalTime,
                    hnr |-> IsHNR(tmIn[1].peer, tmIn[1].cur_time, tmIn[1].threshold) ]>>
    /\ UNCHANGED <<tmIn, updVars, rcVars, mainVars, swapVars, hexVars, encVars, metVars, wlVars, admVars, lifeVars, flVars, atVars, shVars, cfgVars, mcVars>>

TmNext == TmUpdate \/ TmIsHNR

SpecTime == TmInit /\ [][TmNext]_vars

\* C24: an announce of an existing peer dt seconds after its previous
\* announce leaves total_time_s unchanged when dt <= 0 or dt > 4 *
\* ann_interval, and adds exactly dt otherwise, dt = 4 * ann_interval
\* included.
C24_TotalTimeCreditsDt ==
    (tmOut # None /\ tmOut[1].op = "Update"
        /\ tmIn[1].peer.Active /\ tmIn[1].peer.AnnounceLast > 0)
    => LET dt == tmIn[1].cur_time - tmIn[1].peer.AnnounceLast
       IN  tmOut[1].TotalTime =
               IF dt <= 0 \/ dt > 4 * AnnInterval
               THEN tmIn[1].peer.TotalTime
               ELSE tmIn[1].peer.TotalTime + dt

\* C30: IsHNR is true exactly when the peer has bytes left and now -
\* announce_first exceeds the threshold.
C30_IsHNRWhenDownloadingTooLong ==
    (tmOut # None /\ tmOut[1].op = "IsHNR")
    => (tmOut[1].hnr <=>
            (tmIn[1].peer.Left > 0
             /\ tmIn[1].cur_time - tmIn[1].peer.AnnounceFirst > tmIn[1].threshold))


----------------------------------------------------------------------------
\* SpecLife: the life of one peer, in memory and in the peers table of the
\* store, under announces that are validated first, the clock and the batch
\* writer.

\* The announces of the peer that are handled.
MaxLifeAnnounces == 3

LifePeers == {"P1"}

\* min_interval: the seconds a client has to wait between two announces
\* without an event.
AnnIntervalMin == 1

\* The length of a peer id.
PeerIDLen == Len(Chars("P1"))

\* The announces sent for a peer id: well-formed ones, with totals that rise
\* and fall, and ones with port 0 or with a peer id that is too short.
LifeRequests(peer_id) ==
    [ PeerID : {peer_id, "P"},
      Uploaded : 0..MaxUp,
      Downloaded : {0},
      IPv4 : {IPOf(peer_id)},
      Port : {0, PortOf(peer_id)},
      Corrupt : {0},
      Left : {1},
      Event : {"", "started", "stopped"} ]

\* The input contract of an announce: the port and the peer id.
ValidRequest(ann) ==
    ann.Port >= 1 /\ Len(Chars(ann.PeerID)) = PeerIDLen

\* The announce comes earlier than min_interval after the previous announce
\* of its peer, and has no event to excuse it.
TooFrequentAnyEvent(prior, ann, cur_time) ==
    prior # None /\ cur_time - prior[1].AnnounceLast < AnnIntervalMin
TooFrequent(prior, ann, cur_time) ==
    ann.Event = "" /\ prior # None /\ cur_time - prior[1].AnnounceLast < AnnIntervalMin

LifeInit ==
    /\ McIdle
    /\ CfgIdle
    /\ ShIdle
    /\ AtIdle
    /\ FlIdle
    /\ UpdIdle
    /\ RcIdle
    /\ SwIdle
    /\ HexIdle
    /\ EncIdle
    /\ MetIdle
    /\ WlIdle
    /\ AdmIdle
    /\ TmIdle
    /\ TrackerStart
    /\ lifePrev = [k \in PeerKeys |-> None]
    /\ lifeLast = None

\* The announce handler: a request that breaks the input contract is
\* answered Malformed and one that comes too early RequestTooFrequent, and
\* neither changes anything; the others are handled.
LifeAnnounce(t, p, ann) ==
    /\ annTotal < MaxLifeAnnounces
    /\ annTotal' = annTotal + 1
    /\ IF ~ValidRequest(ann)
       THEN /\ lifeLast' = <<[ peer |-> p, port |-> ann.Port, event |-> ann.Event,
                                status |-> "Malformed" ]>>
            /\ UNCHANGED <<memVars, redisVars, dbVars, accVars, resp, lifePrev>>
       ELSE IF TooFrequent(swarm[<<t, p>>], ann, now)
       THEN /\ lifeLast' = <<[ peer |-> p, port |-> ann.Port, event |-> ann.Event,
                                status |-> "RequestTooFrequent" ]>>
            /\ UNCHANGED <<memVars, redisVars, dbVars, accVars, resp, lifePrev>>
       ELSE /\ lifeLast' = <<[ peer |-> p, port |-> ann.Port, event |-> ann.Event,
                                status |-> "OK" ]>>
            /\ lifePrev' = [lifePrev EXCEPT ![<<t, p>>] =
                    IF ann.Event # "stopped" /\ swarm[<<t, p>>] # None
                    THEN <<swarm[<<t, p>>][1].AnnounceLast>>
                    ELSE None]
            /\ IF ann.Event = "stopped"
               THEN IF swarm[<<t, p>>] = None
                    THEN StopAbsent(t, p, ann)
                    ELSE StopPresent(t, p, ann)
               ELSE Upsert(t, p, ann)
    /\ UNCHANGED <<now, storeWriteErrors, updVars, rcVars, swapVars, hexVars, encVars, metVars, wlVars, admVars, tmVars, flVars, atVars, shVars, cfgVars, mcVars>>

\* One tick of the batch writer, all of whose store calls succeed.
LifeFlush == BatchTick(FALSE, FALSE, FALSE)

LifeNext ==
    \/ \E t \in TorrentIDs, p \in LifePeers : \E ann \in LifeRequests(p) : LifeAnnounce(t, p, ann)
    \/ LifeFlush
    \/ Tick

SpecLife == LifeInit /\ [][LifeNext]_vars

\* C21: every peer stored in a swarm has port > 0 and a peer id of the full
\* length, in memory, in the peer hashes and in the peers table.
C21_StoredPeersHavePort ==
    \A k \in PeerKeys :
        /\ swarm[k] # None
            => swarm[k][1].Port > 0 /\ Len(Chars(swarm[k][1].PeerID)) = PeerIDLen
        /\ redisHashes[KeyPeer(k[1], k[2])] # None
            => /\ redisHashes[KeyPeer(k[1], k[2])][1].Port > 0
               /\ Len(Chars(redisHashes[KeyPeer(k[1], k[2])][1].PeerID)) = PeerIDLen
        /\ dbPeers[k] # None => dbPeers[k][1].addr_port > 0

\* A peer was created and updated by accepted announces, and an announce
\* with port 0 for it has been refused.
C21_Witness ==
    /\ lifeLast # None
    /\ lifeLast[1].status = "Malformed"
    /\ lifeLast[1].port = 0
    /\ swarm[<<1, lifeLast[1].peer>>] # None
    /\ swarm[<<1, lifeLast[1].peer>>][1].Announces = 2
    /\ dbPeers[<<1, lifeLast[1].peer>>] # None

\* C22: the times of a stored peer are ordered, announce_first <=
\* announce_prev <= announce_last, and once its deltas are flushed
\* announce_prev is the announce_last that its latest announce replaced.
C22_AnnouncePrevFollows ==
    \A k \in PeerKeys :
        dbPeers[k] # None
        => /\ dbPeers[k][1].announce_first <= dbPeers[k][1].announce_prev
           /\ dbPeers[k][1].announce_prev <= dbPeers[k][1].announce_last
           /\ (accPeer[k] = None /\ lifePrev[k] # None)
                => dbPeers[k][1].announce_prev = lifePrev[k][1]

C25_TooFrequentOnlyWithoutEvent ==
    [][(annTotal' = annTotal + 1 /\ lifeLast'[1].status # "Malformed")
        => LET prior == swarm[<<1, lifeLast'[1].peer>>]
               early == prior # None /\ now - prior[1].AnnounceLast < AnnIntervalMin
           IN  /\ (lifeLast'[1].event = "" /\ early)
                    => /\ lifeLast'[1].status = "RequestTooFrequent"
                       /\ UNCHANGED <<memVars, redisVars, dbVars, accVars>>
               /\ lifeLast'[1].event # "" => lifeLast'[1].status # "RequestTooFrequent"
               /\ (lifeLast'[1].event = "" /\ ~early) => lifeLast'[1].status = "OK"
      ]_vars

\* A peer of the swarm has announced again without an event in the second
\* of its previous announce and was refused.
C25_Witness ==
    /\ lifeLast # None
    /\ lifeLast[1].status = "RequestTooFrequent"
    /\ swarm[<<1, lifeLast[1].peer>>] # None
    /\ swarm[<<1, lifeLast[1].peer>>][1].AnnounceLast = now

----------------------------------------------------------------------------
\* SpecFlush: the stat procedures of the store (src/store/torrent.go), each
\* called once on a table of several rows.

\* The largest stored count and the largest flushed delta.
MaxDelta == 1

FlTorrents == {1, 2}
FlPeerKeys == {<<1, "P1">>, <<1, "P2">>, <<2, "P1">>}

FlUserRow(n) == [announces |-> n, uploaded |-> n, downloaded |-> n]
FlTorrentRow(n) ==
    [ total_uploaded |-> n, total_downloaded |-> n, total_completed |-> n,
      announces |-> n, seeders |-> n, leechers |-> n ]
FlPeerRow(n) ==
    [ addr_ip |-> IPString(<<10, 0, 0, 1>>), addr_port |-> 1,
      announce_first |-> 1, announce_last |-> 1, announce_prev |-> 1,
      total_downloaded |-> n, total_uploaded |-> n, total_left |-> 1,
      total_announces |-> n, speed_up |-> n, speed_dn |-> n,
      speed_up_max |-> n, speed_dn_max |-> n ]

\* The tables: each key has no row, or a row with counts up to MaxDelta.
FlUserTables == [Passkeys -> {None} \cup {<<FlUserRow(n)>> : n \in 0..MaxDelta}]
FlTorrentTables == [FlTorrents -> {None} \cup {<<FlTorrentRow(n)>> : n \in 0..MaxDelta}]
FlPeerTables == [FlPeerKeys -> {None} \cup {<<FlPeerRow(n)>> : n \in 0..MaxDelta}]

FlUserInputs ==
    \E tbl \in FlUserTables, pk \in Passkeys :
      \E a, u, d \in 0..MaxDelta :
        flIn = <<[ kind |-> "user", tbl |-> tbl, key |-> pk,
                   args |-> [announces |-> a, uploaded |-> u, downloaded |-> d] ]>>

FlTorrentInputs ==
    \E tbl \in FlTorrentTables, ih \in FlTorrents :
      \E a, u, d, c \in 0..MaxDelta : \E se, le \in 0..1 :
        flIn = <<[ kind |-> "torrent", tbl |-> tbl, key |-> ih,
                   args |-> [ announces |-> a, uploaded |-> u, downloaded |-> d,
                              snatches |-> c, seeders |-> se, leechers |-> le ] ]>>

FlPeerInputs ==
    \E tbl \in FlPeerTables, k \in FlPeerKeys :
      \E a, u, d \in 0..MaxDelta : \E sp, mx \in 0..1 :
        flIn = <<[ kind |-> "peer", tbl |-> tbl, key |-> k,
                   args |-> [ announces |-> a, uploaded |-> u, downloaded |-> d,
                              announce_last |-> 2, speed_up |-> sp, speed_dn |-> sp,
                              speed_up_max |-> mx, speed_dn_max |-> mx ] ]>>

FlInit ==
    /\ McIdle
    /\ CfgIdle
    /\ ShIdle
    /\ AtIdle
    /\ UpdIdle
    /\ RcIdle
    /\ SwIdle
    /\ MainIdle
    /\ HexIdle
    /\ EncIdle
    /\ MetIdle
    /\ WlIdle
    /\ AdmIdle
    /\ TmIdle
    /\ LifeIdle
    /\ (FlUserInputs \/ FlTorrentInputs \/ FlPeerInputs)
    /\ flOut = None

\* One entry of a user batch: user_update_stats.
FlUser ==
    /\ flOut = None
    /\ flIn[1].kind = "user"
    /\ flOut' = <<user_update_stats(flIn[1].tbl, flIn[1].key, flIn[1].args.announces,
                                    flIn[1].args.uploaded, flIn[1].args.downloaded)>>
    /\ UNCHANGED <<flIn, updVars, rcVars, mainVars, swapVars, hexVars, encVars, metVars, wlVars, admVars, tmVars, lifeVars, atVars, shVars, cfgVars, mcVars>>

\* One entry of a torrent batch: torrent_update_stats.
FlTorrent ==
    /\ flOut = None
    /\ flIn[1].kind = "torrent"
    /\ flOut' = <<torrent_update_stats(flIn[1].tbl, flIn[1].key, flIn[1].args.downloaded,
                                       flIn[1].args.uploaded, flIn[1].args.announces,
                                       flIn[1].args.snatches, flIn[1].args.seeders,
                                       flIn[1].args.leechers)>>
    /\ UNCHANGED <<flIn, updVars, rcVars, mainVars, swapVars, hexVars, encVars, metVars, wlVars, admVars, tmVars, lifeVars, atVars, shVars, cfgVars, mcVars>>

\* One entry of a peer batch: peer_update_stats.
FlPeer ==
    /\ flOut = None
    /\ flIn[1].kind = "peer"
    /\ flOut' = <<peer_update_stats(flIn[1].tbl, flIn[1].key[1], flIn[1].key[2],
                                    flIn[1].args.downloaded, flIn[1].args.uploaded,
                                    flIn[1].args.announces, flIn[1].args.announce_last,
                                    flIn[1].args.speed_dn, flIn[1].args.speed_up,
                                    flIn[1].args.speed_dn_max, flIn[1].args.speed_up_max)>>
    /\ UNCHANGED <<flIn, updVars, rcVars, mainVars, swapVars, hexVars, encVars, metVars, wlVars, admVars, tmVars, lifeVars, atVars, shVars, cfgVars, mcVars>>

FlNext == FlUser \/ FlTorrent \/ FlPeer

SpecFlush == FlInit /\ [][FlNext]_vars

\* The names of the stored column of each flushed delta.
FlColumns(kind) ==
    CASE kind = "user" ->
            {<<"announces", "announces">>, <<"uploaded", "uploaded">>,
             <<"downloaded", "downloaded">>}
      [] kind = "torrent" ->
            {<<"announces", "announces">>, <<"uploaded", "total_uploaded">>,
             <<"downloaded", "total_downloaded">>, <<"snatches", "total_completed">>}
      [] kind = "peer" ->
            {<<"announces", "total_announces">>, <<"uploaded", "total_uploaded">>,
             <<"downloaded", "total_downloaded">>}

\* C27: a stat flush adds the flushed deltas of uploaded, downloaded,
\* announces and snatches to the stored values of the row of its key,
\* overwrites the seeders and leechers of a torrent with the latest counts,
\* and leaves every other row as it was.
C27_FlushAddsToOneRow ==
    flOut # None
    => LET in == flIn[1]
           out == flOut[1]
       IN  /\ DOMAIN out = DOMAIN in.tbl
           /\ \A k \in DOMAIN in.tbl : k # in.key => out[k] = in.tbl[k]
           /\ in.tbl[in.key] = None => out[in.key] = None
           /\ in.tbl[in.key] # None
                => /\ out[in.key] # None
                   /\ \A c \in FlColumns(in.kind) :
                        out[in.key][1][c[2]] = in.tbl[in.key][1][c[2]] + in.args[c[1]]
                   /\ in.kind = "torrent"
                        => /\ out[in.key][1].seeders = in.args.seeders
                           /\ out[in.key][1].leechers = in.args.leechers

\* A torrent row with counts has been flushed with deltas and other counts
\* of seeders and leechers, beside another torrent's row.
C27_Witness ==
    /\ flOut # None
    /\ flIn[1].kind = "torrent"
    /\ \A k \in FlTorrents : flIn[1].tbl[k] = <<FlTorrentRow(1)>>
    /\ flIn[1].args.uploaded = 1 /\ flIn[1].args.snatches = 1
    /\ flIn[1].args.seeders = 0
    /\ flOut[1][flIn[1].key][1].total_uploaded = 2
    /\ flOut[1][flIn[1].key][1].seeders = 0


----------------------------------------------------------------------------
\* SpecAdminTorrent: the admin handlers of torrents (src/unnamed/part_000)
\* on the torrents of the store, which are looked up with the procedure
\* torrent_by_infohash (src/store/torrent.go).

\* The admin requests handled.
MaxAdminRequests == 2

AtHashes == {1, 2}

\* The multipliers a request may ask for.
AtMultipliers == {-1, 0, 2}

\* The torrents of the store at start: none, a live one, a disabled one and
\* a deleted one, with the default multipliers.
AtKinds ==
    {None}
    \cup {<<[IsDeleted |-> d, IsEnabled |-> e, Reason |-> "",
             MultiUp |-> MultiUp, MultiDn |-> MultiDn]>> :
            d \in BOOLEAN, e \in BOOLEAN}

\* The update requests: the keys named and the values sent.
AtKeySets == {{}, {"is_deleted"}, {"is_enabled", "reason"}, {"multi_up", "multi_dn"}}
AtUpdates ==
    [ Keys : AtKeySets, IsDeleted : BOOLEAN, IsEnabled : {TRUE},
      Reason : {"retired"}, MultiUp : AtMultipliers, MultiDn : AtMultipliers ]

AtInit ==
    /\ McIdle
    /\ CfgIdle
    /\ ShIdle
    /\ UpdIdle
    /\ RcIdle
    /\ SwIdle
    /\ MainIdle
    /\ HexIdle
    /\ EncIdle
    /\ MetIdle
    /\ WlIdle
    /\ AdmIdle
    /\ TmIdle
    /\ LifeIdle
    /\ FlIdle
    /\ atTorrents \in [AtHashes -> AtKinds]
    /\ atLast = None
    /\ atCount = 0

\* The answer recorded for a request.
AtAnswer(op, ih, flag, found, status) ==
    <<[ op |-> op, ih |-> ih, flag |-> flag, before |-> atTorrents[ih],
        found |-> found, status |-> status ]>>

\* torrentAdd: negative multipliers are stored as 0; the store refuses an
\* info hash it holds already.
torrentAdd(ih, req) ==
    /\ atCount < MaxAdminRequests
    /\ atCount' = atCount + 1
    /\ LET t == [ IsDeleted |-> FALSE, IsEnabled |-> FALSE, Reason |-> "",
                  MultiUp |-> IF req.MultiUp < 0 THEN 0 ELSE req.MultiUp,
                  MultiDn |-> IF req.MultiDn < 0 THEN 0 ELSE req.MultiDn ]
       IN  IF atTorrents[ih] # None
           THEN /\ atLast' = AtAnswer("add", ih, FALSE, TRUE, 409)
                /\ UNCHANGED atTorrents
           ELSE /\ atLast' = AtAnswer("add", ih, FALSE, FALSE, 200)
                /\ atTorrents' = [atTorrents EXCEPT ![ih] = <<t>>]
    /\ UNCHANGED <<updVars, rcVars, mainVars, swapVars, hexVars, encVars, metVars, wlVars, admVars, tmVars, lifeVars, flVars, shVars, cfgVars, mcVars>>

\* torrentDelete: the store drops the row (procedure torrent_delete).
torrentDelete(ih) ==
    /\ atCount < MaxAdminRequests
    /\ atCount' = atCount + 1
    /\ atTorrents' = [atTorrents EXCEPT ![ih] = None]
    /\ atLast' = AtAnswer("delete", ih, FALSE, atTorrents[ih] # None, 200)
    /\ UNCHANGED <<updVars, rcVars, mainVars, swapVars, hexVars, encVars, metVars, wlVars, admVars, tmVars, lifeVars, flVars, shVars, cfgVars, mcVars>>

\* The torrent after the keys of an update are applied to it.
ApplyKeys(t, tup) ==
    [ IsDeleted |-> IF "is_deleted" \in tup.Keys THEN tup.IsDeleted ELSE t.IsDeleted,
      IsEnabled |-> IF "is_enabled" \in tup.Keys THEN tup.IsEnabled ELSE t.IsEnabled,
      Reason |-> IF "reason" \in tup.Keys THEN tup.Reason ELSE t.Reason,
      MultiUp |-> IF "multi_up" \in tup.Keys THEN tup.MultiUp ELSE t.MultiUp,
      MultiDn |-> IF "multi_dn" \in tup.Keys THEN tup.MultiDn ELSE t.MultiDn ]

\* torrentUpdate: the torrent is looked up with the flag set, the keys of
\* the request are applied to it and it is stored.
torrentUpdate(ih, tup) ==
    /\ atCount < MaxAdminRequests
    /\ atCount' = atCount + 1
    /\ LET t == torrent_by_infohash(atTorrents, ih, TRUE)
       IN  IF t = None
           THEN /\ atLast' = AtAnswer("update", ih, TRUE, FALSE, 404)
                /\ UNCHANGED atTorrents
           ELSE IF tup.Keys = {}
           THEN /\ atLast' = AtAnswer("update", ih, TRUE, TRUE, 400)
                /\ UNCHANGED atTorrents
           ELSE /\ atLast' = AtAnswer("update", ih, TRUE, TRUE, 200)
                /\ atTorrents' = [atTorrents EXCEPT ![ih] = <<ApplyKeys(t[1], tup)>>]
    /\ UNCHANGED <<updVars, rcVars, mainVars, swapVars, hexVars, encVars, metVars, wlVars, admVars, tmVars, lifeVars, flVars, shVars, cfgVars, mcVars>>

\* TorrentByInfoHash of the store contract, as the announce path (flag
\* FALSE) and the admin path (flag TRUE) call it.
TorrentByInfoHash(ih, include_deleted) ==
    /\ atCount < MaxAdminRequests
    /\ atCount' = atCount + 1
    /\ atLast' = AtAnswer("get", ih, include_deleted,
                          torrent_by_infohash(atTorrents, ih, include_deleted) # None, 200)
    /\ UNCHANGED <<atTorrents, updVars, rcVars, mainVars, swapVars, hexVars, encVars, metVars, wlVars, admVars, tmVars, lifeVars, flVars, shVars, cfgVars, mcVars>>

AtNext ==
    \/ \E ih \in AtHashes, req \in [MultiUp : AtMultipliers, MultiDn : AtMultipliers] : torrentAdd(ih, req)
    \/ \E ih \in AtHashes : torrentDelete(ih)
    \/ \E ih \in AtHashes, tup \in AtUpdates : torrentUpdate(ih, tup)
    \/ \E ih \in AtHashes, include_deleted \in BOOLEAN : TorrentByInfoHash(ih, include_deleted)

SpecAdminTorrent == AtInit /\ [][AtNext]_vars

\* C28: with include_deleted the lookup finds every torrent of the store,
\* deleted or not, and without it only the torrents that are not deleted;
\* an admin update that names keys therefore reaches every stored torrent:
\* it is answered 200 and the torrent has the values sent for its keys.
C28_LookupIncludesDeleted ==
    atLast # None
    => LET l == atLast[1]
       IN  /\ (l.op = "get" /\ l.flag) => (l.found <=> l.before # None)
           /\ (l.op = "get" /\ ~l.flag)
                => (l.found <=> (l.before # None /\ ~l.before[1].IsDeleted))
           /\ (l.op = "update" /\ l.before # None) => l.status # 404

\* C29: no torrent of the store has a negative multiplier.
C29_MultipliersNotNegative ==
    \A ih \in AtHashes :
        atTorrents[ih] # None
        => atTorrents[ih][1].MultiUp >= 0 /\ atTorrents[ih][1].MultiDn >= 0


----------------------------------------------------------------------------
\* SpecShutdown: the periodic tasks and the shutdown signal.  Announces
\* enqueue deltas; the batch writer swaps the accumulator for an empty one
\* and passes the batch to the store; the reaper sweeps the swarms.  After
\* the signal a task finishes the iteration it is in and stops, the batch
\* writer after one more drain.

\* The deltas that announces enqueue.
MaxEnqueued == 3

ShInit ==
    /\ McIdle
    /\ CfgIdle
    /\ UpdIdle
    /\ RcIdle
    /\ SwIdle
    /\ MainIdle
    /\ HexIdle
    /\ EncIdle
    /\ MetIdle
    /\ WlIdle
    /\ AdmIdle
    /\ TmIdle
    /\ LifeIdle
    /\ FlIdle
    /\ AtIdle
    /\ shSignal = FALSE
    /\ shReaper = "waiting"
    /\ shWriter = "waiting"
    /\ shAcc = 0 /\ shBatch = 0 /\ shStored = 0 /\ shMark = 0

\* An announce enqueues a delta.
ShEnqueue ==
    /\ shAcc + shBatch + shStored < MaxEnqueued
    /\ shAcc' = shAcc + 1
    /\ UNCHANGED <<shSignal, shReaper, shWriter, shBatch, shStored, shMark, cfgVars, mcVars>>
    /\ UNCHANGED <<updVars, rcVars, mainVars, swapVars, hexVars, encVars, metVars, wlVars, admVars, tmVars, lifeVars, flVars, atVars, cfgVars, mcVars>>

\* The shutdown signal.
ShSignal ==
    /\ ~shSignal
    /\ shSignal' = TRUE
    /\ shMark' = shAcc + shBatch + shStored
    /\ UNCHANGED <<shReaper, shWriter, shAcc, shBatch, shStored, cfgVars, mcVars>>
    /\ UNCHANGED <<updVars, rcVars, mainVars, swapVars, hexVars, encVars, metVars, wlVars, admVars, tmVars, lifeVars, flVars, atVars, cfgVars, mcVars>>

\* The reaper's ticker fires: a sweep begins.
ShReapBegin ==
    /\ ~shSignal
    /\ shReaper = "waiting"
    /\ shReaper' = "sweeping"
    /\ UNCHANGED <<shSignal, shWriter, shAcc, shBatch, shStored, shMark, cfgVars, mcVars>>
    /\ UNCHANGED <<updVars, rcVars, mainVars, swapVars, hexVars, encVars, metVars, wlVars, admVars, tmVars, lifeVars, flVars, atVars, cfgVars, mcVars>>

\* The sweep ends.
ShReapEnd ==
    /\ shReaper = "sweeping"
    /\ shReaper' = "waiting"
    /\ UNCHANGED <<shSignal, shWriter, shAcc, shBatch, shStored, shMark, cfgVars, mcVars>>
    /\ UNCHANGED <<updVars, rcVars, mainVars, swapVars, hexVars, encVars, metVars, wlVars, admVars, tmVars, lifeVars, flVars, atVars, cfgVars, mcVars>>

\* The reaper, between sweeps, sees the signal and stops.
ShReapStop ==
    /\ shSignal
    /\ shReaper = "waiting"
    /\ shReaper' = "stopped"
    /\ UNCHANGED <<shSignal, shWriter, shAcc, shBatch, shStored, shMark, cfgVars, mcVars>>
    /\ UNCHANGED <<updVars, rcVars, mainVars, swapVars, hexVars, encVars, metVars, wlVars, admVars, tmVars, lifeVars, flVars, atVars, cfgVars, mcVars>>

\* The batch writer's ticker fires: the accumulator is swapped out.
ShBatchBegin ==
    /\ ~shSignal
    /\ shWriter = "waiting"
    /\ shWriter' = "writing"
    /\ shBatch' = shAcc
    /\ shAcc' = 0
    /\ UNCHANGED <<shSignal, shReaper, shStored, shMark, cfgVars, mcVars>>
    /\ UNCHANGED <<updVars, rcVars, mainVars, swapVars, hexVars, encVars, metVars, wlVars, admVars, tmVars, lifeVars, flVars, atVars, cfgVars, mcVars>>

\* The batch in flight is passed to the store; after the final drain the
\* writer stops.
ShBatchEnd ==
    /\ shWriter \in {"writing", "draining"}
    /\ shWriter' = IF shWriter = "draining" THEN "stopped" ELSE "waiting"
    /\ shStored' = shStored + shBatch
    /\ shBatch' = 0
    /\ UNCHANGED <<shSignal, shReaper, shAcc, shMark, cfgVars, mcVars>>
    /\ UNCHANGED <<updVars, rcVars, mainVars, swapVars, hexVars, encVars, metVars, wlVars, admVars, tmVars, lifeVars, flVars, atVars, cfgVars, mcVars>>

\* The batch writer, between ticks, sees the signal: it stops without a
\* last drain.
ShFinalDrainSkipped ==
    /\ shSignal
    /\ shWriter = "waiting"
    /\ shWriter' = "stopped"
    /\ UNCHANGED <<shSignal, shReaper, shAcc, shBatch, shStored, shMark, cfgVars, mcVars>>
    /\ UNCHANGED <<updVars, rcVars, mainVars, swapVars, hexVars, encVars, metVars, wlVars, admVars, tmVars, lifeVars, flVars, atVars, cfgVars, mcVars>>

\* The batch writer, between ticks, sees the signal: it swaps the
\* accumulator out for the final drain.
ShFinalDrain ==
    /\ shSignal
    /\ shWriter = "waiting"
    /\ shWriter' = "draining"
    /\ shBatch' = shAcc
    /\ shAcc' = 0
    /\ UNCHANGED <<shSignal, shReaper, shStored, shMark, cfgVars, mcVars>>
    /\ UNCHANGED <<updVars, rcVars, mainVars, swapVars, hexVars, encVars, metVars, wlVars, admVars, tmVars, lifeVars, flVars, atVars, cfgVars, mcVars>>

ShNext ==
    \/ ShEnqueue
    \/ ShSignal
    \/ ShReapBegin
    \/ ShReapEnd
    \/ ShReapStop
    \/ ShBatchBegin
    \/ ShBatchEnd
    \/ ShFinalDrain

\* The tasks are goroutines of their own: a step of a task that stays
\* possible is taken.
ShFairness ==
    /\ WF_vars(ShReapEnd)
    /\ WF_vars(ShReapStop)
    /\ WF_vars(ShBatchEnd)
    /\ WF_vars(ShFinalDrain)

SpecShutdown == ShInit /\ [][ShNext]_vars /\ ShFairness

\* C26: after the shutdown signal the reaper and the batch writer finish the
\* iteration in flight and stop, and the batch writer drains once more:
\* eventually both have stopped and every delta enqueued before the signal
\* has been passed to the store.
C26_ShutdownDrainsAndStops ==
    shSignal ~> (shReaper = "stopped" /\ shWriter = "stopped" /\ shStored >= shMark)

\* Both tasks have stopped after a signal that was given when every delta
\* had been enqueued, and all the deltas have been passed to the store.
C26_Witness ==
    /\ shSignal
    /\ shReaper = "stopped"
    /\ shWriter = "stopped"
    /\ shMark = MaxEnqueued
    /\ shStored = shMark


----------------------------------------------------------------------------
\* SpecConfig: the admin updates that name the keys to change: configUpdate
\* on the settings of the tracker and torrentUpdate on a torrent of the
\* store (src/unnamed/part_000).

\* The longest duration in seconds that time.ParseDuration accepts (the
\* nanoseconds of a longer one overflow int64).
MaxSeconds == 3

\* time.ParseDuration(fmt.Sprintf("%ds", n)): the duration, or no value on
\* an error.
ParseDuration(n) == IF n > MaxSeconds THEN None ELSE <<n>>

\* The keys of ConfigRequest.UpdateKeys that configUpdate has a case for.
CfgKeys ==
    { "tracker_announce_interval", "tracker_announce_interval_minimum",
      "tracker_reaper_interval", "tracker_batch_update_interval",
      "tracker_max_peers", "tracker_auto_register",
      "tracker_allow_non_routable", "geodb_enabled" }

\* The setting of the tracker that a key names.
CfgField(k) ==
    CASE k = "tracker_announce_interval" -> "AnnInterval"
      [] k = "tracker_announce_interval_minimum" -> "AnnIntervalMin"
      [] k = "tracker_reaper_interval" -> "ReaperInterval"
      [] k = "tracker_batch_update_interval" -> "BatchInterval"
      [] k = "tracker_max_peers" -> "MaxPeers"
      [] k = "tracker_auto_register" -> "AutoRegister"
      [] k = "tracker_allow_non_routable" -> "AllowNonRoutable"
      [] k = "geodb_enabled" -> "GeodbEnabled"

\* The settings at start: the geo database is enabled or not.
CfgStart ==
    { [ AnnInterval |-> 1, AnnIntervalMin |-> 1, ReaperInterval |-> 1,
        BatchInterval |-> 1, MaxPeers |-> 1, AutoRegister |-> FALSE,
        AllowNonRoutable |-> FALSE, GeodbEnabled |-> g ] : g \in BOOLEAN }

\* The lists of keys of the requests: none, one, several, and a key listed
\* after one whose case fails.
CfgKeyLists ==
    { <<>>, <<"tracker_max_peers">>, <<"geodb_enabled">>,
      <<"tracker_announce_interval", "tracker_auto_register">>,
      <<"geodb_enabled", "tracker_allow_non_routable">>,
      <<"tracker_announce_interval_minimum", "tracker_reaper_interval",
        "tracker_batch_update_interval">> }

\* The bodies of the requests: every body carries a value for every
\* setting, other than the value at start.
ConfigRequest ==
    [ UpdateKeys : CfgKeyLists,
      AnnInterval : {2, MaxSeconds + 1}, AnnIntervalMin : {2},
      ReaperInterval : {2}, BatchInterval : {2}, MaxPeers : {2},
      AutoRegister : {TRUE}, AllowNonRoutable : {TRUE},
      GeodbEnabled : BOOLEAN ]

\* What enabling the geo database meets: the file of the database is
\* there or not, and each step on it works or fails.
GeoEnvs ==
    { [exists |-> TRUE, open |-> TRUE, stat |-> TRUE, size |-> 1, download |-> TRUE, new |-> TRUE],
      [exists |-> TRUE, open |-> FALSE, stat |-> TRUE, size |-> 1, download |-> TRUE, new |-> TRUE],
      [exists |-> TRUE, open |-> TRUE, stat |-> FALSE, size |-> 1, download |-> TRUE, new |-> TRUE],
      [exists |-> TRUE, open |-> TRUE, stat |-> TRUE, size |-> 0, download |-> FALSE, new |-> TRUE],
      [exists |-> FALSE, open |-> TRUE, stat |-> TRUE, size |-> 0, download |-> TRUE, new |-> TRUE],
      [exists |-> FALSE, open |-> TRUE, stat |-> TRUE, size |-> 0, download |-> FALSE, new |-> TRUE],
      [exists |-> TRUE, open |-> TRUE, stat |-> TRUE, size |-> 1, download |-> TRUE, new |-> FALSE] }

\* Enabling the geo database fails at one of its steps.
GeoFails(env) ==
    \/ env.exists /\ (~env.open \/ ~env.stat)
    \/ (~env.exists \/ env.size = 0) /\ ~env.download
    \/ ~env.new

\* The environments to tell apart for a request: all of them when it asks
\* for the geo database, else one.
GeoEnvsOf(req) ==
    IF req.GeodbEnabled /\ \E i \in 1..Len(req.UpdateKeys) : req.UpdateKeys[i] = "geodb_enabled"
    THEN GeoEnvs
    ELSE {env \in GeoEnvs : env.exists /\ env.size = 1 /\ ~GeoFails(env)}

\* The case config.GeodbEnabled with the geo database to be enabled.  The
\* err of os.Open, f.Stat and geo.New is declared with := in the block of
\* the case and hides the err of the function; the err of geo.DownloadDB
\* is assigned with = to the err of the function.  Every failure sets
\* internalErr and leaves the switch.
EnableGeodb(st, env) ==
    IF env.exists /\ (~env.open \/ ~env.stat)
    THEN [st EXCEPT !.internalErr = TRUE]
    ELSE IF (~env.exists \/ env.size = 0) /\ ~env.download
    THEN [st EXCEPT !.internalErr = TRUE, !.err = TRUE]
    ELSE IF ~env.new
    THEN [st EXCEPT !.internalErr = TRUE]
    ELSE [st EXCEPT !.t.GeodbEnabled = TRUE]

\* A variant that sets every setting but GeodbEnabled to the value of the
\* body, listed or not.
ConfigCaseAll(st, k, req, env) ==
    [st EXCEPT !.t = [ AnnInterval |-> IF ParseDuration(req.AnnInterval) = None
                                       THEN st.t.AnnInterval ELSE req.AnnInterval,
                       AnnIntervalMin |-> req.AnnIntervalMin,
                       ReaperInterval |-> req.ReaperInterval,
                       BatchInterval |-> req.BatchInterval,
                       MaxPeers |-> req.MaxPeers,
                       AutoRegister |-> req.AutoRegister,
                       AllowNonRoutable |-> req.AllowNonRoutable,
                       GeodbEnabled |-> st.t.GeodbEnabled ]]

\* One case of the switch of configUpdate on the state st of the handler:
\* the settings t, the err of the function, internalErr and the status of
\* an abort.
ConfigCase(st, k, req, env) ==
    LET interval(n, field) ==
            IF ParseDuration(n) = None
            THEN [st EXCEPT !.abort = <<400>>]
            ELSE [st EXCEPT !.t[field] = ParseDuration(n)[1]]
    IN  CASE k = "tracker_announce_interval" -> interval(req.AnnInterval, "AnnInterval")
          [] k = "tracker_announce_interval_minimum" -> interval(req.AnnIntervalMin, "AnnIntervalMin")
          [] k = "tracker_reaper_interval" -> interval(req.ReaperInterval, "ReaperInterval")
          [] k = "tracker_batch_update_interval" -> interval(req.BatchInterval, "BatchInterval")
          [] k = "tracker_max_peers" -> [st EXCEPT !.t.MaxPeers = req.MaxPeers]
          [] k = "tracker_auto_register" -> [st EXCEPT !.t.AutoRegister = req.AutoRegister]
          [] k = "tracker_allow_non_routable" -> [st EXCEPT !.t.AllowNonRoutable = req.AllowNonRoutable]
          [] k = "geodb_enabled" ->
                IF req.GeodbEnabled /\ ~st.t.GeodbEnabled THEN EnableGeodb(st, env)
                ELSE IF ~req.GeodbEnabled /\ st.t.GeodbEnabled
                THEN [st EXCEPT !.t.GeodbEnabled = FALSE]
                ELSE st
          [] OTHER -> st

\* The loop of configUpdate over the keys; an abort returns at once.
RECURSIVE ConfigLoop(_, _, _, _)
ConfigLoop(st, keys, req, env) ==
    IF keys = <<>> \/ st.abort # None THEN st
    ELSE ConfigLoop(ConfigCase(st, Head(keys), req, env), Tail(keys), req, env)

\* The status of the reply of configUpdate.
ConfigStatus(st) ==
    IF st.abort # None THEN st.abort[1]
    ELSE IF st.err THEN (IF st.internalErr THEN 500 ELSE 400)
    ELSE 200

CfgInit ==
    /\ McIdle
    /\ UpdIdle
    /\ RcIdle
    /\ SwIdle
    /\ MainIdle
    /\ HexIdle
    /\ EncIdle
    /\ MetIdle
    /\ WlIdle
    /\ AdmIdle
    /\ TmIdle
    /\ LifeIdle
    /\ FlIdle
    /\ ShIdle
    /\ cfgTracker \in {<<t>> : t \in CfgStart}
    /\ cfgLast = None
    /\ atTorrents \in {tt \in [AtHashes -> AtKinds] : tt[2] = None}
    /\ atLast = None
    /\ atCount = 0

\* configUpdate with a body that binds.
configUpdate(req, env) ==
    /\ atCount < MaxAdminRequests
    /\ atCount' = atCount + 1
    /\ LET st == ConfigLoop([t |-> cfgTracker[1], err |-> FALSE,
                             internalErr |-> FALSE, abort |-> None],
                            req.UpdateKeys, req, env)
       IN  /\ cfgTracker' = <<st.t>>
           /\ cfgLast' = <<[ req |-> req, env |-> env, before |-> cfgTracker[1],
                             status |-> ConfigStatus(st) ]>>
    /\ UNCHANGED <<atTorrents, atLast, updVars, rcVars, mainVars, swapVars, hexVars, encVars, metVars, wlVars, admVars, tmVars, lifeVars, flVars, shVars, mcVars>>

\* The two handlers work on parts of the state that have nothing in
\* common, so a run of requests is taken to be of one handler.
CfgNext ==
    \/ atLast = None /\ \E req \in ConfigRequest : \E env \in GeoEnvsOf(req) : configUpdate(req, env)
    \/ cfgLast = None /\ \E ih \in AtHashes, tup \in AtUpdates : torrentUpdate(ih, tup)

SpecConfig == CfgInit /\ [][CfgNext]_vars

\* The settings that the keys of a list name.
CfgListed(keys) == {CfgField(keys[i]) : i \in 1..Len(keys)}

\* The settings of the tracker.
CfgFields == {CfgField(k) : k \in CfgKeys}

\* After a config update every setting that is not listed has the value it
\* had before; after one answered 200 every listed setting other than
\* GeodbEnabled has the value of the body.
ConfigFrame ==
    cfgLast # None =>
        LET l == cfgLast[1]
            listed == CfgListed(l.req.UpdateKeys)
        IN  /\ \A f \in CfgFields \ listed : cfgTracker[1][f] = l.before[f]
            /\ l.status = 200
                => \A f \in listed \ {"GeodbEnabled"} : cfgTracker[1][f] = l.req[f]

\* The key of each field of a torrent that torrentUpdate has a case for.
TorrentKeys ==
    [ IsDeleted |-> "is_deleted", IsEnabled |-> "is_enabled", Reason |-> "reason",
      MultiUp |-> "multi_up", MultiDn |-> "multi_dn" ]

\* A torrent update leaves the other torrents and every field that is not
\* listed as they were; one answered 200 gives every listed field the value
\* of the body, and one answered otherwise changes nothing.
TorrentFrame ==
    \A ih \in AtHashes, tup \in AtUpdates :
        (atLast' # None /\ atLast'[1].ih = ih /\ torrentUpdate(ih, tup)) =>
            /\ \A other \in AtHashes \ {ih} : atTorrents'[other] = atTorrents[other]
            /\ atLast'[1].status # 200 => atTorrents'[ih] = atTorrents[ih]
            /\ atLast'[1].status = 200 =>
                  /\ atTorrents[ih] # None /\ atTorrents'[ih] # None
                  /\ \A f \in DOMAIN TorrentKeys :
                        atTorrents'[ih][1][f] =
                            IF TorrentKeys[f] \in tup.Keys THEN tup[f]
                            ELSE atTorrents[ih][1][f]

\* C35: an admin config update changes only the settings of the tracker
\* whose keys are listed, and an admin torrent update only the fields of
\* the torrent whose keys are listed: every setting and every field that is
\* not listed keeps its value although the body carries a value for it,
\* and the listed ones take the values of the body.
C35_OnlyListedKeysChange ==
    /\ []ConfigFrame
    /\ [][TorrentFrame]_vars

\* A config update that lists tracker_max_peers alone was answered 200: the
\* setting has the value of the body, and the announce interval and the
\* registration of unknown torrents, for which the body has other values,
\* are as before.
C35_Witness ==
    /\ cfgLast # None
    /\ cfgLast[1].req.UpdateKeys = <<"tracker_max_peers">>
    /\ cfgLast[1].status = 200
    /\ cfgTracker[1].MaxPeers = 2 /\ cfgLast[1].before.MaxPeers = 1
    /\ cfgTracker[1].AnnInterval = 1 /\ cfgLast[1].req.AnnInterval = 2
    /\ ~cfgTracker[1].AutoRegister /\ cfgLast[1].req.AutoRegister

\* C36: a config update is answered 200 only when every listed key was
\* applied: when the geo database is to be enabled and a step of enabling
\* it fails, the reply is an error status and GeodbEnabled stays false.
C36_GeodbFailureIsReported ==
    cfgLast # None =>
        LET l == cfgLast[1]
            listed == CfgListed(l.req.UpdateKeys)
        IN  /\ l.status = 200 => \A f \in listed : cfgTracker[1][f] = l.req[f]
            /\ ("GeodbEnabled" \in listed /\ l.req.GeodbEnabled
                    /\ ~l.before.GeodbEnabled /\ GeoFails(l.env))
                => (l.status # 200 /\ ~cfgTracker[1].GeodbEnabled)


----------------------------------------------------------------------------
\* SpecMetricsConc: the counters of package metrics with the announce
\* handlers and the reader of the metrics page running concurrently
\* (src/metrics/metrics.go).  A handler adds one to AnnounceTotal and to the
\* counter of its outcome and, for a successful announce, records its
\* execution time; Get swaps each counter for 0, one after the other, and
\* then takes the average of the execution times.

\* The reads of the metrics page.
MaxReads == 2

\* The handlers, one announce each.
McHandlers == {"h1", "h2"}

\* The announces counted.
McAnnounces ==
    { [status |-> "OK", t |-> 1], [status |-> "OK", t |-> 4],
      [status |-> "Unauthorized", t |-> 1], [status |-> "InvalidInfoHash", t |-> 1],
      [status |-> "Malformed", t |-> 1] }

\* The counters in the order Get reads them.
McOrder ==
    << "AnnounceTotal", "AnnounceStatusOK", "AnnounceStatusUnauthorized",
       "AnnounceStatusInvalidInfoHash", "AnnounceStatusMalformed" >>

\* atomic.AddInt64(&c, 1)
AddInt64(c) == c + 1

\* atomic.SwapInt64(&c, 0): the old value, and the value left.
SwapInt64Load(c) == [old |-> c, new |-> c]
SwapInt64(c) == [old |-> c, new |-> 0]

McInit ==
    /\ UpdIdle
    /\ RcIdle
    /\ SwIdle
    /\ MainIdle
    /\ HexIdle
    /\ EncIdle
    /\ MetIdle
    /\ WlIdle
    /\ AdmIdle
    /\ TmIdle
    /\ LifeIdle
    /\ FlIdle
    /\ AtIdle
    /\ ShIdle
    /\ CfgIdle
    /\ mcCounters = ZeroCounters
    /\ mcTimes = <<>>
    /\ mcLock = None
    /\ mcAnn \in [McHandlers -> McAnnounces]
    /\ mcPc = [h \in McHandlers |-> "total"]
    /\ mcGetPc = 0
    /\ mcGetM = ZeroCounters
    /\ mcReads = <<>>
    /\ mcIncs = ZeroCounters
    /\ mcAll = <<>>

\* The handler h counts its announce in the total.
McIncTotal(h) ==
    /\ mcPc[h] = "total"
    /\ mcCounters' = [mcCounters EXCEPT !.AnnounceTotal = AddInt64(@)]
    /\ mcIncs' = [mcIncs EXCEPT !.AnnounceTotal = @ + 1]
    /\ mcPc' = [mcPc EXCEPT ![h] = "status"]
    /\ UNCHANGED <<mcTimes, mcLock, mcAnn, mcGetPc, mcGetM, mcReads, mcAll,
                   updVars, rcVars, mainVars, swapVars, hexVars, encVars, metVars, wlVars, admVars, tmVars, lifeVars, flVars, atVars, shVars, cfgVars>>

\* The handler h counts its announce under its outcome.
McIncStatus(h) ==
    /\ mcPc[h] = "status"
    /\ mcCounters' = [mcCounters EXCEPT ![StatusCounter(mcAnn[h].status)] = AddInt64(@)]
    /\ mcIncs' = [mcIncs EXCEPT ![StatusCounter(mcAnn[h].status)] = @ + 1]
    /\ mcPc' = [mcPc EXCEPT ![h] = IF mcAnn[h].status = "OK" THEN "time" ELSE "done"]
    /\ UNCHANGED <<mcTimes, mcLock, mcAnn, mcGetPc, mcGetM, mcReads, mcAll,
                   updVars, rcVars, mainVars, swapVars, hexVars, encVars, metVars, wlVars, admVars, tmVars, lifeVars, flVars, atVars, shVars, cfgVars>>

\* AddAnnounceTime: execLock.Lock()
McTimeLock(h) ==
    /\ mcPc[h] = "time"
    /\ mcLock = None
    /\ mcLock' = <<h>>
    /\ mcPc' = [mcPc EXCEPT ![h] = "append"]
    /\ UNCHANGED <<mcCounters, mcTimes, mcAnn, mcGetPc, mcGetM, mcReads, mcIncs, mcAll,
                   updVars, rcVars, mainVars, swapVars, hexVars, encVars, metVars, wlVars, admVars, tmVars, lifeVars, flVars, atVars, shVars, cfgVars>>

\* AddAnnounceTime: the append and execLock.Unlock()
McTimeAppend(h) ==
    /\ mcPc[h] = "append"
    /\ mcTimes' = AddAnnounceTime(mcTimes, mcAnn[h].t)
    /\ mcAll' = Append(mcAll, mcAnn[h].t)
    /\ mcLock' = None
    /\ mcPc' = [mcPc EXCEPT ![h] = "done"]
    /\ UNCHANGED <<mcCounters, mcAnn, mcGetPc, mcGetM, mcReads, mcIncs,
                   updVars, rcVars, mainVars, swapVars, hexVars, encVars, metVars, wlVars, admVars, tmVars, lifeVars, flVars, atVars, shVars, cfgVars>>

\* Get is called.
McGetBegin ==
    /\ mcGetPc = 0
    /\ Len(mcReads) < MaxReads
    /\ mcGetPc' = 1
    /\ mcGetM' = ZeroCounters
    /\ UNCHANGED <<mcCounters, mcTimes, mcLock, mcAnn, mcPc, mcReads, mcIncs, mcAll,
                   updVars, rcVars, mainVars, swapVars, hexVars, encVars, metVars, wlVars, admVars, tmVars, lifeVars, flVars, atVars, shVars, cfgVars>>

\* Get: the swap of the next counter.
McGetSwap ==
    /\ mcGetPc \in 1..Len(McOrder)
    /\ LET c == McOrder[mcGetPc]
           r == SwapInt64(mcCounters[c])
       IN  /\ mcGetM' = [mcGetM EXCEPT ![c] = r.old]
           /\ mcCounters' = [mcCounters EXCEPT ![c] = r.new]
    /\ mcGetPc' = mcGetPc + 1
    /\ UNCHANGED <<mcTimes, mcLock, mcAnn, mcPc, mcReads, mcIncs, mcAll,
                   updVars, rcVars, mainVars, swapVars, hexVars, encVars, metVars, wlVars, admVars, tmVars, lifeVars, flVars, atVars, shVars, cfgVars>>

\* avgExecTime: execLock.Lock()
McAvgLock ==
    /\ mcGetPc = Len(McOrder) + 1
    /\ mcLock = None
    /\ mcLock' = <<"get">>
    /\ mcGetPc' = mcGetPc + 1
    /\ UNCHANGED <<mcCounters, mcTimes, mcAnn, mcPc, mcGetM, mcReads, mcIncs, mcAll,
                   updVars, rcVars, mainVars, swapVars, hexVars, encVars, metVars, wlVars, admVars, tmVars, lifeVars, flVars, atVars, shVars, cfgVars>>

\* avgExecTime: the average, execLock.Unlock(), and the return of Get.
McAvgReturn ==
    /\ mcGetPc = Len(McOrder) + 2
    /\ LET r == avgExecTime(mcTimes)
       IN  /\ mcTimes' = r.times
           /\ mcReads' = Append(mcReads, [m |-> mcGetM, avg |-> r.avg, recorded |-> Len(mcAll)])
    /\ mcLock' = None
    /\ mcGetPc' = 0
    /\ UNCHANGED <<mcCounters, mcAnn, mcPc, mcGetM, mcIncs, mcAll,
                   updVars, rcVars, mainVars, swapVars, hexVars, encVars, metVars, wlVars, admVars, tmVars, lifeVars, flVars, atVars, shVars, cfgVars>>

McNext ==
    \/ \E h \in McHandlers : McIncTotal(h)
    \/ \E h \in McHandlers : McIncStatus(h)
    \/ \E h \in McHandlers : McTimeLock(h)
    \/ \E h \in McHandlers : McTimeAppend(h)
    \/ McGetBegin
    \/ McGetSwap
    \/ McAvgLock
    \/ McAvgReturn

SpecMetricsConc == McInit /\ [][McNext]_vars

\* The sum of what the reads returned for the counter c.
RECURSIVE McReturned(_, _)
McReturned(reads, c) ==
    IF reads = <<>> THEN 0 ELSE Head(reads).m[c] + McReturned(Tail(reads), c)

\* The values of the counter c that a read in progress holds.
McHeld(c) == IF mcGetPc = 0 THEN 0 ELSE mcGetM[c]

\* C37: with handlers incrementing the announce counters while the metrics
\* are read, no increment is lost and none is reported twice: for each
\* counter that a read resets, what the reads returned (and a read in
\* progress holds) plus the current value of the counter is the number of
\* increments performed.
C37_NoIncrementLostOrTwice ==
    \A c \in DOMAIN ZeroCounters :
        McReturned(mcReads, c) + McHeld(c) + mcCounters[c] = mcIncs[c]

\* A read took the total before a handler counted its announce and the
\* counter of the outcome after: it returned total 0 and outcome 1, the
\* next read returned total 1, and both handlers have counted.
C37_Witness ==
    /\ Len(mcReads) = 2
    /\ mcReads[1].m.AnnounceTotal = 0 /\ mcReads[1].m.AnnounceStatusOK = 1
    /\ mcReads[2].m.AnnounceTotal = 1
    /\ mcIncs.AnnounceTotal = 2
    /\ mcCounters.AnnounceTotal = 1

\* The execution times recorded after the read before the i-th and up to
\* the i-th read.
McSince(i) ==
    SubSeq(mcAll, IF i = 1 THEN 1 ELSE mcReads[i - 1].recorded + 1, mcReads[i].recorded)

\* C38: every execution time recorded is part of exactly one average: a
\* read returns the integer mean of the times recorded since the read
\* before it, and 0 when none was recorded since, and the times that no
\* read has taken are the ones that wait in AnnounceExecTimesNs.
C38_EachTimeInOneAverage ==
    /\ \A i \in 1..Len(mcReads) :
          mcReads[i].avg = IF McSince(i) = <<>> THEN 0
                           ELSE SumTimes(McSince(i)) \div Len(McSince(i))
    /\ mcTimes = SubSeq(mcAll, IF mcReads = <<>> THEN 1
                               ELSE mcReads[Len(mcReads)].recorded + 1, Len(mcAll))

\* Two handlers recorded the times 1 and 4 while a read was swapping the
\* counters; the read returned their integer mean 2, and the next read,
\* with no time recorded since, returned 0.
C38_Witness ==
    /\ Len(mcReads) = 2
    /\ mcAll = <<1, 4>>
    /\ mcReads[1].m.AnnounceTotal = 0
    /\ mcReads[1].avg = 2 /\ mcReads[1].recorded = 2
    /\ mcReads[2].avg = 0
    /\ mcTimes = <<>>


====
